---- MODULE Spec2Model ----
(***************************************************************************)
(* Model of the peer-to-peer synchronisation core (SyncHandler,            *)
(* SyncHandlerClient, Peer) of orange-bot-base.                            *)
(*                                                                         *)
(* Every node owns a heap of Peer objects, an insertion-ordered Peer Table *)
(* (key -> object), a controller reference, a message counter and a module *)
(* registry.  Nodes talk over connections, each made of two FIFO channels  *)
(* (client -> server, server -> client).  One action models one event-loop *)
(* callback of the program, from its first statement to its last.          *)
(***************************************************************************)
EXTENDS Integers, Sequences, FiniteSets, TLC

(***************************************************************************)
(* Bounds of the model.                                                    *)
(***************************************************************************)
MaxMsgId == 8       \* largest value the per-node message counter may reach
MaxStimuli == 2     \* timer callbacks, clock steps, expire calls and lost
                    \* connections in a run
MaxRingMsgId == 4   \* the counter's largest value in the three-node ring
MaxTrioMsgId == 20  \* the counter's largest value in the scripted runs

(***************************************************************************)
(* Program constants.                                                      *)
(***************************************************************************)
P2P_HEARTBEAT_TIME == 10000
P2P_DEAD_TIME == 2000

\* the wall clock advances in steps of one liveness window
TimeStep == P2P_HEARTBEAT_TIME + P2P_DEAD_TIME
StartTime == TimeStep

Node == {"a", "b", "c"}
UnknownNames == {"unknown-peer-1", "unknown-peer-2"}
NoName == "none"          \* undefined InstanceName / handler
NoAddr == "none"          \* undefined PeerAddress
ModuleOrder == <<"m1", "m2">>
ModuleNames == {"m1", "m2"}

(***************************************************************************)
(* Peer objects and the insertion-ordered Map that holds them.             *)
(***************************************************************************)
NewPeer(name, address) ==
    [name |-> name, address |-> address, lastHeartbeat |-> 0,
     lastMessageId |-> 0, hasModules |-> FALSE, modules |-> <<>>,
     knownDead |-> FALSE, priority |-> -1]

\* Peer.alive at wall-clock time t
Alive(p, t) ==
    /\ ~p.knownDead
    /\ p.lastHeartbeat # 0
    /\ p.lastHeartbeat > t - P2P_HEARTBEAT_TIME - P2P_DEAD_TIME

\* Map.get: the object stored under key, 0 when there is none
MapGet(table, key) ==
    LET I == {i \in 1..Len(table) : table[i].key = key}
    IN  IF I = {} THEN 0 ELSE table[CHOOSE i \in I : TRUE].obj

MapHas(table, key) == MapGet(table, key) # 0

\* Map.set: an existing key keeps its position, a new key goes last
MapSet(table, key, obj) ==
    IF MapHas(table, key)
    THEN [i \in 1..Len(table) |->
            IF table[i].key = key THEN [key |-> key, obj |-> obj] ELSE table[i]]
    ELSE Append(table, [key |-> key, obj |-> obj])

MapIndex(table, key) ==
    LET I == {i \in 1..Len(table) : table[i].key = key}
    IN  IF I = {} THEN 0 ELSE CHOOSE i \in I : TRUE

RemoveAt(s, k) ==
    [i \in 1..(Len(s) - 1) |-> IF i < k THEN s[i] ELSE s[i + 1]]

\* Map.delete on the node state: a live iterator keeps its place
MapDelete(S, key) ==
    LET k == MapIndex(S.table, key)
    IN  IF k = 0 THEN S
        ELSE [S EXCEPT !.table = RemoveAt(S.table, k),
                       !.iter = IF @ > k THEN @ - 1 ELSE @]

\* the array written to the Peer Address Cache by createPeer / renamePeer
PeersArray(S) ==
    LET Keep(i) == S.heap[S.table[i].obj].address # NoAddr
        F[i \in 0..Len(S.table)] ==
            IF i = 0 THEN <<>>
            ELSE IF Keep(i)
                 THEN Append(F[i - 1], [name |-> S.heap[S.table[i].obj].name,
                                        address |-> S.heap[S.table[i].obj].address])
                 ELSE F[i - 1]
    IN  F[Len(S.table)]

\* JsonDataStorage.save: the file is written, or the write fails and the
\* promise save returns is rejected; no caller of save awaits or catches it
save(S, data) ==
    IF S.disk = "unwritable" THEN [S EXCEPT !.rejected = TRUE]
    ELSE [S EXCEPT !.cache = data]

createPeer(S, name, address, updateCache) ==
    LET S1 == [S EXCEPT !.heap = Append(@, NewPeer(name, address)),
                        !.table = MapSet(@, name, Len(S.heap) + 1)]
    IN  IF updateCache THEN save(S1, PeersArray(S1)) ELSE S1

renamePeer(S, obj, name, updateCache) ==
    LET S1 == MapDelete(S, S.heap[obj].name)
        S2 == [S1 EXCEPT !.table = MapSet(@, name, obj)]
    IN  IF updateCache THEN save(S2, PeersArray(S2)) ELSE S2

findPeerByAddress(S, address) ==
    LET I == {i \in 1..Len(S.table) : S.heap[S.table[i].obj].address = address}
    IN  IF I = {} THEN 0
        ELSE S.table[CHOOSE i \in I : \A j \in I : i <= j].obj

(***************************************************************************)
(* Messages.  Every message is a record with the same fields; messageToData*)
(* stamps source and id onto the body it is given.                         *)
(***************************************************************************)
BaseMsg ==
    [type |-> "none", source |-> NoName, id |-> 0, peer |-> NoName,
     module |-> "none", modules |-> <<>>, priority |-> 0, reply |-> FALSE,
     address |-> NoAddr, controller |-> NoName, configName |-> "none", scope |-> "none",
     version |-> 0, env |-> "none", userId |-> "none"]

MyselfObj == 1            \* this.myself: the first object a node creates

messageId(S) == S.curId

messageToData(S, message) ==
    [message EXCEPT !.source = S.name, !.id = messageId(S)]

\* sendMessageRaw: queued for every open connection but `except'
sendMessageRaw(S, raw, except) ==
    [S EXCEPT !.out = Append(@, [msg |-> raw, exc |-> except, to |-> "all"])]

sendMessage(S, message, except) ==
    [sendMessageRaw(S, messageToData(S, message), except) EXCEPT !.curId = @ + 1]

\* sendMessageTo: one inbound socket only
sendMessageTo(S, message, ws) ==
    [S EXCEPT !.out = Append(@, [msg |-> messageToData(S, message),
                                 exc |-> "none", to |-> ws]),
              !.curId = @ + 1]

\* SyncHandler.expireConfigCache
expireConfigCache(S, configName, scope, id) ==
    sendMessage(S, [BaseMsg EXCEPT !.type = "expireConfigCache",
                                   !.configName = configName,
                                   !.scope = scope,
                                   !.id = id], "none")

(***************************************************************************)
(* ConfigStorage: the buckets of one configuration and their caches.  A    *)
(* bucket holds one value; NoValue is an undefined cache and a missing     *)
(* database record.  cache_expiry lies beyond the time a run covers.       *)
(***************************************************************************)
NoValue == -1
DefaultValue == 0
ConfigValues == {1, 2}
UserIds == {MaxMsgId + 100}
GuildIds == {MaxMsgId + 101}
GlobalId == 0
Buckets ==
    {<<"user", i>> : i \in UserIds} \cup {<<"guild", i>> : i \in GuildIds}
        \cup {<<"global", GlobalId>>}

\* new _Configurable(...)
NewConfigurable(scope, id) ==
    [scope |-> scope, id |-> id, cache |-> NoValue, exists_db |-> FALSE]

\* new ConfigStorage(...): objs are the _Configurable objects created so
\* far, users and guilds the two Maps (sets of [key, obj]), global the
\* object index of _global, 0 when undefined
EmptyStorage == [objs |-> <<>>, users |-> {}, guilds |-> {}, global |-> 0]

\* Map.get on a set of [key, obj]: the object index, 0 when undefined
StoreGet(map, id) ==
    LET E == {e \in map : e.key = id}
    IN  IF E = {} THEN 0 ELSE (CHOOSE e \in E : TRUE).obj

StoreSet(map, id, obj) ==
    {e \in map : e.key # id} \cup {[key |-> id, obj |-> obj]}

\* ConfigStorage.user / guild / global: the storage afterwards; the
\* object handed out is the one Bucket finds
user(st, id) ==
    IF StoreGet(st.users, id) # 0 THEN st
    ELSE [st EXCEPT !.objs = Append(@, NewConfigurable("user", id)),
                    !.users = StoreSet(@, id, Len(st.objs) + 1)]

guild(st, id) ==
    IF StoreGet(st.guilds, id) # 0 THEN st
    ELSE [st EXCEPT !.objs = Append(@, NewConfigurable("guild", id)),
                    !.users = StoreSet(@, id, Len(st.objs) + 1)]

global(st) ==
    IF st.global # 0 THEN st
    ELSE [st EXCEPT !.objs = Append(@, NewConfigurable("global", GlobalId)),
                    !.global = Len(st.objs) + 1]

Access(st, scope, id) ==
    IF scope = "user" THEN user(st, id)
    ELSE IF scope = "guild" THEN guild(st, id)
    ELSE global(st)

\* the object user(id), guild(id) or global() returned in the call that
\* produced st
Bucket(st, scope, id) ==
    IF scope = "user" THEN StoreGet(st.users, id)
    ELSE IF scope = "guild"
    THEN (IF StoreGet(st.guilds, id) # 0 THEN StoreGet(st.guilds, id)
          ELSE StoreGet(st.users, id))
    ELSE st.global

\* _Configurable.flushCache on an optional object
flushCache(st, obj) ==
    IF obj = 0 THEN st ELSE [st EXCEPT !.objs[obj].cache = NoValue]

\* ConfigStorage.expireCache
expireCache(st, scope, id) ==
    IF scope = "user" THEN flushCache(st, StoreGet(st.users, id))
    ELSE IF scope = "global" THEN flushCache(st, StoreGet(st.guilds, id))
    ELSE flushCache(st, st.global)

\* a request to the database is sent; `cont' is the code that awaits it
Request(S, kind, obj, value, cont) ==
    [S EXCEPT !.ops = Append(@, [kind |-> kind, obj |-> obj,
                                 scope |-> S.storage.objs[obj].scope,
                                 id |-> S.storage.objs[obj].id,
                                 value |-> value, cont |-> cont])]

\* _Configurable.fetch up to its await
fetch(S, obj, value, cont) == Request(S, "getList", obj, value, cont)

\* _Configurable.fetch after its await: the record, or the defaults
fetched(S, r) ==
    IF r.result # NoValue
    THEN [S EXCEPT !.storage.objs[r.obj].cache = r.result,
                   !.storage.objs[r.obj].exists_db = TRUE]
    ELSE [S EXCEPT !.storage.objs[r.obj].cache = DefaultValue]

\* _Configurable._set and _setObject up to their await: the cache takes the
\* value and collection.update, or create, is called
Write(S, obj, value, cont) ==
    Request([S EXCEPT !.storage.objs[obj].cache = value],
            IF S.storage.objs[obj].exists_db THEN "update" ELSE "create",
            obj, value, cont)

\* _Configurable.set from the call of _set or _setObject on: set awaits
\* neither, and calls expireConfigCache when they return their promise
setTail(S, obj, value) ==
    expireConfigCache(Write(S, obj, value, "_set"), "cfg",
                      S.storage.objs[obj].scope, S.storage.objs[obj].id)

\* _Configurable.set up to its first await, or to its end
set(S, obj, value) ==
    IF S.storage.objs[obj].cache = NoValue THEN fetch(S, obj, value, "set")
    ELSE setTail(S, obj, value)

\* _Configurable.setMany after its fetch, up to the await of the write
setManyTail(S, obj, value) == Write(S, obj, value, "setMany")

setMany(S, obj, value) ==
    IF S.storage.objs[obj].cache = NoValue THEN fetch(S, obj, value, "setMany")
    ELSE setManyTail(S, obj, value)

\* _Configurable.get
get(S, obj) ==
    IF S.storage.objs[obj].cache # NoValue THEN S
    ELSE fetch(S, obj, DefaultValue, "get")

\* the code that runs when the database has answered request r
resume(S, r) ==
    CASE r.cont = "get" -> fetched(S, r)
      [] r.cont = "set" -> setTail(fetched(S, r), r.obj, r.value)
      [] r.cont = "setMany" /\ r.kind = "getList" ->
            setManyTail(fetched(S, r), r.obj, r.value)
      [] r.cont = "setMany" /\ r.kind # "getList" ->
            expireConfigCache([S EXCEPT !.storage.objs[r.obj].exists_db = TRUE],
                              "cfg", r.scope, r.id)
      [] OTHER -> [S EXCEPT !.storage.objs[r.obj].exists_db = TRUE]

(***************************************************************************)
(* Module registry binding.                                                *)
(***************************************************************************)
LocalOrder(S) == SelectSeq(ModuleOrder, LAMBDA m : m \in DOMAIN S.mods)

Handling(S, m) == S.mods[m].handler = S.name

ModuleData(S) ==
    [i \in 1..Len(LocalOrder(S)) |->
        [name |-> LocalOrder(S)[i],
         available |-> S.mods[LocalOrder(S)[i]].available,
         handling |-> Handling(S, LocalOrder(S)[i])]]

sendModules(S) ==
    sendMessage(S, [BaseMsg EXCEPT !.type = "moduleInfo",
                                   !.modules = ModuleData(S)], "none")

setModuleHandler(S, m, handler) ==
    sendModules([S EXCEPT !.mods[m].handler = handler])

(***************************************************************************)
(* Controller election.                                                    *)
(***************************************************************************)
inControl(S) ==
    /\ S.controller # 0
    /\ S.heap[S.controller].name = S.name

assumeControl(S) ==
    sendMessage([S EXCEPT !.controller = MyselfObj],
                [BaseMsg EXCEPT !.type = "controlSwitch", !.controller = S.name],
                "none")

setController(S, obj) == [S EXCEPT !.controller = obj]

checkController(S) ==
    LET willControl ==
            ~ \E i \in 1..Len(S.table) :
                /\ Alive(S.heap[S.table[i].obj], S.now)
                /\ S.heap[S.table[i].obj].priority < S.heap[MyselfObj].priority
    IN  IF willControl THEN assumeControl(S) ELSE S

(***************************************************************************)
(* Module assignment.                                                      *)
(***************************************************************************)
\* the first live peer (Map order) whose stored list shows mdl available
FirstCapable(S, mdl) ==
    LET Capable(i) ==
            LET p == S.heap[S.table[i].obj]
            IN  /\ Alive(p, S.now)
                /\ p.hasModules
                /\ \E j \in 1..Len(p.modules) :
                      p.modules[j].name = mdl /\ p.modules[j].available
        I == {i \in 1..Len(S.table) : Capable(i)}
    IN  IF I = {} THEN 0
        ELSE S.table[CHOOSE i \in I : \A j \in I : i <= j].obj

assignOne(S, mdlName) ==
    IF mdlName \notin DOMAIN S.mods THEN S
    ELSE IF ~S.mods[mdlName].available
    THEN LET p == FirstCapable(S, mdlName)
             S1 == IF p = 0 THEN S
                   ELSE sendMessage([S EXCEPT !.mods[mdlName].handler = S.heap[p].name],
                                    [BaseMsg EXCEPT !.type = "assignModule",
                                                    !.peer = S.heap[p].name,
                                                    !.module = mdlName], "none")
         IN  [S1 EXCEPT !.mods[mdlName].handler = NoName]
    ELSE [S EXCEPT !.mods[mdlName].handler = S.name]

RECURSIVE assignLoop(_, _, _)
assignLoop(S, modules, i) ==
    IF i > Len(modules) THEN S
    ELSE assignLoop(assignOne(S, modules[i]), modules, i + 1)

assignModules(S, modules) == sendModules(assignLoop(S, modules, 1))

\* checkModules' test "someone else is handling it"
SomeoneHandling(S, mdl) ==
    \E i \in 1..Len(S.table) :
        LET p == S.heap[S.table[i].obj]
        IN  /\ Alive(p, S.now)
            /\ p.hasModules
            /\ \E j \in 1..Len(p.modules) : p.modules[j].handling

checkModules(S) ==
    LET unhandledMdls ==
            SelectSeq(LocalOrder(S),
                      LAMBDA m : ~Handling(S, m) /\ ~SomeoneHandling(S, m))
    IN  assignModules(S, unhandledMdls)

(***************************************************************************)
(* Heartbeat and liveness.                                                 *)
(***************************************************************************)
\* handleDeadPeer without the test for the node's own entry
handleDeadPeer_self(S, obj, dontTell) ==
    IF S.heap[obj].knownDead THEN S
    ELSE
    LET S1 == [S EXCEPT !.heap[obj].knownDead = TRUE,
                        !.heap[obj].lastMessageId = 0]
        S2 == IF dontTell THEN S1
              ELSE sendMessage(S1, [BaseMsg EXCEPT !.type = "lostPeer",
                                                   !.peer = S.heap[obj].name], "none")
        peer == S.heap[obj]
        peerHandledModules ==
            LET H == SelectSeq(peer.modules, LAMBDA d : d.handling)
            IN  [i \in 1..Len(H) |-> H[i].name]
    IN  IF obj = S2.controller THEN checkController(S2)
        ELSE IF ~inControl(S2) THEN S2
        ELSE IF ~peer.hasModules THEN S2
        ELSE IF Len(peerHandledModules) = 0 THEN S2
        ELSE assignModules(S2, peerHandledModules)

handleDeadPeer(S, obj, dontTell) ==
    IF S.heap[obj].name = S.name
    THEN [S EXCEPT !.heap[obj].knownDead = TRUE]
    ELSE IF S.heap[obj].knownDead THEN S
    ELSE
    LET S1 == [S EXCEPT !.heap[obj].knownDead = TRUE,
                        !.heap[obj].lastMessageId = 0]
        S2 == IF dontTell THEN S1
              ELSE sendMessage(S1, [BaseMsg EXCEPT !.type = "lostPeer",
                                                   !.peer = S.heap[obj].name], "none")
        peer == S.heap[obj]
        peerHandledModules ==
            LET H == SelectSeq(peer.modules, LAMBDA d : d.handling)
            IN  [i \in 1..Len(H) |-> H[i].name]
    IN  IF obj = S2.controller THEN checkController(S2)
        ELSE IF ~inControl(S2) THEN S2
        ELSE IF ~peer.hasModules THEN S2
        ELSE IF Len(peerHandledModules) = 0 THEN S2
        ELSE assignModules(S2, peerHandledModules)

RECURSIVE checkLoop(_, _)
checkLoop(S, i) ==
    IF i > Len(S.table) THEN S
    ELSE LET peer == S.heap[S.table[i].obj]
         IN  IF Alive(peer, S.now) \/ peer.knownDead
             THEN checkLoop(S, i + 1)
             ELSE checkLoop(handleDeadPeer(S, S.table[i].obj, FALSE), i + 1)

checkStatus(S) ==
    LET S1 == checkLoop(S, 1)
        S2 == IF inControl(S1) THEN checkModules(S1) ELSE S1
    IN  IF ~inControl(S2) THEN checkController(S2) ELSE S2

(***************************************************************************)
(* onMessage: dedup, relay, then the handler of the message's kind.        *)
(* S.got collects the messages handed to a kind-specific handler.          *)
(***************************************************************************)
onHeartbeat(S, k) ==
    [S EXCEPT !.heap[k].lastHeartbeat = S.now,
              !.heap[k].knownDead = FALSE]

\* instanceInfo handling in which a controller does not announce its successor
onInstanceInfo_silent(S, k, message) ==
    LET S1 == [S EXCEPT !.heap[k].lastHeartbeat = S.now,
                        !.heap[k].knownDead = FALSE,
                        !.heap[k].priority = message.priority]
        peer == S1.heap[k]
        S2 == IF S1.controller = 0 \/ peer.priority < S1.heap[S1.controller].priority
              THEN IF S1.heap[MyselfObj].priority < peer.priority
                   THEN assumeControl(S1)
                   ELSE setController(S1, k)
              ELSE S1
    IN  IF message.reply THEN S2
        ELSE sendModules(
               sendMessage(S2, [BaseMsg EXCEPT !.type = "instanceInfo",
                                               !.address = S2.heap[MyselfObj].address,
                                               !.priority = S2.heap[MyselfObj].priority,
                                               !.reply = TRUE], "none"))

onInstanceInfo(S, k, message) ==
    LET S1 == [S EXCEPT !.heap[k].lastHeartbeat = S.now,
                        !.heap[k].knownDead = FALSE,
                        !.heap[k].priority = message.priority]
        peer == S1.heap[k]
        S2 == IF S1.controller = 0 \/ peer.priority < S1.heap[S1.controller].priority
              THEN LET S1a == IF inControl(S1)
                              THEN sendMessage(S1, [BaseMsg EXCEPT
                                                      !.type = "controlSwitch",
                                                      !.controller = peer.name], "none")
                              ELSE S1
                   IN  IF S1a.heap[MyselfObj].priority < peer.priority
                       THEN assumeControl(S1a)
                       ELSE setController(S1a, k)
              ELSE S1
    IN  IF message.reply THEN S2
        ELSE sendModules(
               sendMessage(S2, [BaseMsg EXCEPT !.type = "instanceInfo",
                                               !.address = S2.heap[MyselfObj].address,
                                               !.priority = S2.heap[MyselfObj].priority,
                                               !.reply = TRUE], "none"))

onLostPeer(S, message) ==
    LET deadPeer == MapGet(S.table, message.peer)
    IN  IF deadPeer = 0 THEN S ELSE handleDeadPeer(S, deadPeer, TRUE)

\* assignModule receipt that records the assignee whether or not the node
\* was handling the module
onAssignModule_eager(S, message) ==
    IF message.peer = S.name
    THEN IF message.module \notin DOMAIN S.mods THEN S
         ELSE setModuleHandler(S, message.module, S.name)
    ELSE IF message.module \notin DOMAIN S.mods THEN S
    ELSE setModuleHandler(S, message.module, message.peer)

onAssignModule(S, message) ==
    IF message.peer = S.name
    THEN IF message.module \notin DOMAIN S.mods THEN S
         ELSE setModuleHandler(S, message.module, S.name)
    ELSE IF message.module \notin DOMAIN S.mods THEN S
    ELSE IF Handling(S, message.module)
         THEN setModuleHandler(S, message.module, message.peer)
         ELSE S

\* requestModule handling without the controller test
onRequestModule_anyone(S, message) ==
    IF message.module \notin DOMAIN S.mods THEN S
    ELSE LET S1 == IF Handling(S, message.module)
                   THEN setModuleHandler(S, message.module, NoName)
                   ELSE S
         IN  sendMessage(S1, [BaseMsg EXCEPT !.type = "assignModule",
                                             !.peer = message.source,
                                             !.module = message.module], "none")

onRequestModule(S, message) ==
    IF ~inControl(S) THEN S
    ELSE IF message.module \notin DOMAIN S.mods THEN S
    ELSE LET S1 == IF Handling(S, message.module)
                   THEN setModuleHandler(S, message.module, NoName)
                   ELSE S
         IN  sendMessage(S1, [BaseMsg EXCEPT !.type = "assignModule",
                                             !.peer = message.source,
                                             !.module = message.module], "none")

\* controlSwitch without the priority test
onControlSwitch_unranked(S, message) ==
    LET controller == MapGet(S.table, message.controller)
    IN  IF controller = 0 THEN S
        ELSE setController(S, controller)

onControlSwitch(S, message) ==
    LET controller == MapGet(S.table, message.controller)
    IN  IF controller = 0 THEN S
        ELSE IF S.heap[MyselfObj].priority < S.heap[controller].priority THEN S
        ELSE setController(S, controller)

RECURSIVE moduleInfoLoop(_, _, _, _)
moduleInfoLoop(S, k, message, i) ==
    IF i > Len(message.modules)
    THEN [S EXCEPT !.heap[k].modules = message.modules,
                   !.heap[k].hasModules = TRUE]
    ELSE
    LET mdlData == message.modules[i]
        peer == S.heap[k]
    IN  IF mdlData.name \notin DOMAIN S.mods
        THEN moduleInfoLoop(S, k, message, i + 1)
        ELSE IF ~mdlData.handling
        THEN \* returns from onMessage
             IF S.mods[mdlData.name].handler = peer.name
             THEN [S EXCEPT !.mods[mdlData.name].handler = NoName]
             ELSE S
        ELSE IF Handling(S, mdlData.name)
        THEN IF S.heap[MyselfObj].priority < peer.priority
             THEN LET S1 == IF inControl(S)
                            THEN sendModules(setModuleHandler(S, mdlData.name, S.name))
                            ELSE S
                  IN  moduleInfoLoop(
                        sendMessage(S1, [BaseMsg EXCEPT !.type = "requestModule",
                                                        !.module = mdlData.name], "none"),
                        k, message, i + 1)
             ELSE moduleInfoLoop(setModuleHandler(S, mdlData.name, peer.name),
                                 k, message, i + 1)
        ELSE moduleInfoLoop([S EXCEPT !.mods[mdlData.name].handler = message.source],
                            k, message, i + 1)

onModuleInfo(S, k, message) == moduleInfoLoop(S, k, message, 1)

onExpireConfigCache(S, message) ==
    IF message.configName \notin S.storages THEN S
    ELSE [S EXCEPT !.sink = Append(@, [configName |-> message.configName,
                                       scope |-> message.scope,
                                       id |-> message.id]),
                   !.storage = expireCache(@, message.scope, message.id)]

dispatch(S, k, message) ==
    CASE message.type = "heartbeat" -> onHeartbeat(S, k)
      [] message.type = "instanceInfo" -> onInstanceInfo(S, k, message)
      [] message.type = "lostPeer" -> onLostPeer(S, message)
      [] message.type = "assignModule" -> onAssignModule(S, message)
      [] message.type = "requestModule" -> onRequestModule(S, message)
      [] message.type = "controlSwitch" -> onControlSwitch(S, message)
      [] message.type = "moduleInfo" -> onModuleInfo(S, k, message)
      [] message.type = "expireConfigCache" -> onExpireConfigCache(S, message)
      [] OTHER -> S

\* the duplicate test of onMessage
IsDuplicate_strict(peer, message) == peer.lastMessageId > message.id

IsDuplicate(peer, message) == peer.lastMessageId >= message.id

onKnownMessage_revive(S, k, message, source) ==
    IF message.source = S.name THEN S
    ELSE IF IsDuplicate(S.heap[k], message) THEN S
    ELSE LET S1 == [S EXCEPT !.heap[k].lastMessageId = message.id,
                             !.heap[k].knownDead = FALSE,
                             !.got = Append(@, message)]
         IN  dispatch(sendMessageRaw(S1, message, source), k, message)

onKnownMessage(S, k, message, source) ==
    IF message.source = S.name THEN S
    ELSE IF IsDuplicate(S.heap[k], message) THEN S
    ELSE LET S1 == [S EXCEPT !.heap[k].lastMessageId = message.id,
                             !.got = Append(@, message)]
         IN  dispatch(sendMessageRaw(S1, message, source), k, message)

onMessage(S, message, source) ==
    LET k == MapGet(S.table, message.source)
    IN  IF k = 0
        THEN IF message.type = "instanceInfo"
             THEN LET S1 == createPeer(S, message.source, message.address, TRUE)
                  IN  onKnownMessage(S1, MapGet(S1.table, message.source),
                                     message, source)
             ELSE S
        ELSE onKnownMessage(S, k, message, source)

(***************************************************************************)
(* Solo-controller fallback.                                               *)
(***************************************************************************)
hasPeers(S) ==
    \E i \in 1..Len(S.table) : Alive(S.heap[S.table[i].obj], S.now)

\* handlePeerConnectionFail up to its sleep
handlePeerConnectionFail(S) ==
    IF \A m \in DOMAIN S.mods : Handling(S, m) THEN S
    ELSE [S EXCEPT !.fb = TRUE]

\* the fallback that claims the modules that are not available as well
afterGiveUpTime_all(S) ==
    LET S0 == [S EXCEPT !.fb = FALSE]
    IN  IF hasPeers(S0) THEN S0
        ELSE assumeControl(
               [S0 EXCEPT !.mods = [m \in DOMAIN S.mods |->
                    [S.mods[m] EXCEPT !.handler = S.name]]])

\* handlePeerConnectionFail after its sleep
afterGiveUpTime(S) ==
    LET S0 == [S EXCEPT !.fb = FALSE]
    IN  IF hasPeers(S0) THEN S0
        ELSE assumeControl(
               [S0 EXCEPT !.mods = [m \in DOMAIN S.mods |->
                    IF S.mods[m].available
                    THEN [S.mods[m] EXCEPT !.handler = S.name]
                    ELSE S.mods[m]]])

(***************************************************************************)
(* Outbound client: scanning, hello, connection callbacks.                 *)
(***************************************************************************)
HelloMsg(S) ==
    [BaseMsg EXCEPT !.type = "hello", !.version = S.ident.version,
                    !.env = S.ident.env, !.userId = S.ident.userId]

\* SyncHandlerClient.sendHello: source and id are set by hand, id is 0
sendHello(S) ==
    [S EXCEPT !.out = Append(@, [msg |-> [HelloMsg(S) EXCEPT !.source = S.name,
                                                              !.id = 0],
                                 exc |-> "none", to |-> "client"])]

\* addresses that make no URL: new WebSocket(`wss://${peer.address}`) throws
InvalidAddrs == {"not a url"}

NoSocket == [state |-> "none", to |-> NoAddr, peer |-> 0, gotHello |-> FALSE]

\* connectNextPeer that leaves a setImmediate pending when it creates a socket
connectNextPeer_fallthrough(S, reachable) ==
    LET it == IF S.iter = 0 THEN 1 ELSE S.iter      \* nextPeer
    IN  IF it > Len(S.table)
        THEN handlePeerConnectionFail(
               [S EXCEPT !.iter = 0, !.sched = "retry", !.ws = NoSocket])
        ELSE
        LET obj == S.table[it].obj
            peer == S.heap[obj]
            S1 == [S EXCEPT !.iter = it + 1]
        IN  IF peer.name = S.name
            THEN [S1 EXCEPT !.sched = "next", !.ws = NoSocket]
            ELSE IF peer.address = NoAddr
            THEN [S1 EXCEPT !.sched = "next", !.ws = NoSocket]
            ELSE IF peer.address \in InvalidAddrs       \* catch { return; }
            THEN [S1 EXCEPT !.sched = "none", !.ws = NoSocket]
            ELSE IF peer.address \in reachable
            THEN sendHello([S1 EXCEPT !.sched = "next",
                                      !.ws = [state |-> "open", to |-> peer.address,
                                              peer |-> obj, gotHello |-> FALSE]])
            ELSE [S1 EXCEPT !.sched = "none",
                            !.ws = [state |-> "closing", to |-> peer.address,
                                    peer |-> obj, gotHello |-> FALSE]]

\* connectNextPeer; `reachable' is the set of addresses that accept a
\* connection at this moment
connectNextPeer(S, reachable) ==
    LET it == IF S.iter = 0 THEN 1 ELSE S.iter      \* nextPeer
    IN  IF it > Len(S.table)
        THEN handlePeerConnectionFail(
               [S EXCEPT !.iter = 0, !.sched = "retry", !.ws = NoSocket])
        ELSE
        LET obj == S.table[it].obj
            peer == S.heap[obj]
            S1 == [S EXCEPT !.iter = it + 1]
        IN  IF peer.name = S.name
            THEN [S1 EXCEPT !.sched = "next", !.ws = NoSocket]
            ELSE IF peer.address = NoAddr
            THEN [S1 EXCEPT !.sched = "next", !.ws = NoSocket]
            ELSE IF peer.address \in InvalidAddrs       \* catch { return; }
            THEN [S1 EXCEPT !.sched = "none", !.ws = NoSocket]
            ELSE IF peer.address \in reachable
            THEN sendHello([S1 EXCEPT !.sched = "none",
                                      !.ws = [state |-> "open", to |-> peer.address,
                                              peer |-> obj, gotHello |-> FALSE]])
            ELSE [S1 EXCEPT !.sched = "none",
                            !.ws = [state |-> "closing", to |-> peer.address,
                                    peer |-> obj, gotHello |-> FALSE]]

IsUnknownName(name) == name \in UnknownNames

\* processHello: TRUE when the hello passes, else the socket is closed
helloPasses(S, message) ==
    /\ message.source # S.name
    /\ message.version = S.ident.version
    /\ message.version = S.ident.version
    /\ message.userId = S.ident.userId

processHello(S, message, obj) ==
    IF ~helloPasses(S, message)
    THEN [S EXCEPT !.ws.state = "closing", !.ws.gotHello = FALSE]
    ELSE IF message.source # S.heap[obj].name
    THEN LET S1 == MapDelete(S, S.heap[obj].name)
             S2 == [S1 EXCEPT !.heap[obj].name = message.source]
         IN  [S2 EXCEPT !.table = MapSet(@, message.source, obj),
                        !.ws.gotHello = TRUE]
    ELSE [S EXCEPT !.ws.gotHello = TRUE]

RECURSIVE requestLoop(_, _)
requestLoop(S, i) ==
    IF i > Len(S.preferred) THEN S
    ELSE requestLoop(sendMessage(S, [BaseMsg EXCEPT !.type = "requestModule",
                                                    !.module = S.preferred[i]],
                                 "none"), i + 1)

onClientConnected(S) ==
    requestLoop(
      sendModules(
        sendMessage(S, [BaseMsg EXCEPT !.type = "instanceInfo",
                                       !.address = S.heap[MyselfObj].address,
                                       !.priority = S.heap[MyselfObj].priority,
                                       !.reply = FALSE], "none")), 1)

\* the client socket's "message" callback
clientOnMessage(S, message) ==
    LET S1 == IF S.ws.gotHello THEN onMessage(S, message, "client") ELSE S
    IN  IF message.type # "hello" THEN S1
        ELSE LET obj == S1.ws.peer
                 S2 == IF IsUnknownName(S1.heap[obj].name)
                       THEN renamePeer(S1, obj, message.source, TRUE)
                       ELSE S1
                 S3 == processHello(S2, message, obj)
             IN  IF S3.ws.gotHello THEN onClientConnected(S3) ELSE S3

(***************************************************************************)
(* Construction and begin(): the Peer Table a node starts with.            *)
(***************************************************************************)
UnknownName(num) == IF num = 1 THEN "unknown-peer-1" ELSE "unknown-peer-2"

RECURSIVE loadCache(_, _, _)
loadCache(S, cached, i) ==
    IF i > Len(cached) THEN S
    ELSE IF MapHas(S.table, cached[i].name) THEN loadCache(S, cached, i + 1)
    ELSE loadCache(createPeer(S, cached[i].name, cached[i].address, FALSE),
                   cached, i + 1)

RECURSIVE loadEnvPeers(_, _, _, _)
loadEnvPeers(S, addresses, i, unknownNum) ==
    IF i > Len(addresses) THEN S
    ELSE IF findPeerByAddress(S, addresses[i]) # 0
    THEN loadEnvPeers(S, addresses, i + 1, unknownNum)
    ELSE loadEnvPeers(createPeer(S, UnknownName(unknownNum), addresses[i], FALSE),
                      addresses, i + 1, unknownNum + 1)

\* The states of the Peer Address Cache file on a first start, while the
\* readFile of begin() is in flight: the file is missing, writeFile has
\* opened and so created it with no content, writeFile has written it.
BootStates == {"missing", "empty", "written"}

\* new SyncHandler(bot) followed by begin(), up to the first connectNextPeer.
\* The constructor calls makeSureDataFileExists and does not wait for it, and
\* begin() calls readFile right away: with no file at the start, begin() is
\* left at its `await' and the file operations that follow are steps of
\* their own.
\* When JsonDataStorage.read rejects, `await this.peerCache.read()' throws:
\* begin() ends there, before the cache and P2P_PEERS are loaded and before
\* server.listen, and the promise of begin(), which the constructor drops,
\* is rejected.
Constructed(n, c) ==
    LET S0 == [name |-> n, heap |-> <<>>, table |-> <<>>, controller |-> 0,
               curId |-> 1, mods |-> c.mods[n], iter |-> 0,
               cache |-> c.cached[n], sink |-> <<>>, fb |-> FALSE,
               sched |-> "next", ws |-> NoSocket,
               ident |-> c.ident[n], preferred |-> c.preferred[n],
               storages |-> c.storages[n], disk |-> c.disk[n],
               rejected |-> FALSE,
               storage |-> EmptyStorage, ops |-> <<>>, replies |-> <<>>,
               now |-> StartTime, out |-> <<>>, got |-> <<>>]
        S1 == createPeer(S0, n, c.myaddr[n], FALSE)
        S2 == [S1 EXCEPT !.heap[MyselfObj].priority = c.prio[n]]
    IN  IF c.disk[n] = "unreadable"
        THEN [S2 EXCEPT !.sched = "none", !.rejected = TRUE]
        ELSE IF c.disk[n] \in BootStates
        THEN [S2 EXCEPT !.sched = "none"]
        ELSE loadEnvPeers(loadCache(S2, c.cached[n], 1), c.envPeers[n], 1, 1)

(***************************************************************************)
(* State.                                                                  *)
(***************************************************************************)
VARIABLES
    now,          \* wall clock (Date.now())
    conf,         \* the configuration; conf.run: the nodes that are running
    heap,         \* heap[n]: the Peer objects node n has created
    table,        \* table[n]: SyncHandler.peers, sequence of [key, obj]
    controller,   \* controller[n]: object index, 0 = undefined
    curId,        \* currentMessageId
    mods,         \* bot.modules: name -> [available, handler]
    iter,         \* SyncHandlerClient.peerIter: next index, 0 = undefined
    cache,        \* contents of the Peer Address Cache file
    sink,         \* expireCache calls made on the configuration storage
    fb,           \* handlePeerConnectionFail is sleeping
    sched,        \* pending connectNextPeer: "next" (setImmediate), "retry" (timer)
    ws,           \* SyncHandlerClient.ws and the closure of its callbacks
    inb,          \* inb[k]: the server-side socket of client k's connection
    c2s,          \* frames in flight from client k to its server
    s2c,          \* frames in flight from the server to client k
    srvClose,     \* pending server-side "close" events per node
    delivered,    \* history: (source, id) pairs handed to a handler
    redelivered,  \* history: pairs handed to a handler more than once
    used,         \* history: number of stimuli so far; the checkStatus timer's
                  \* callbacks are counted per node
    rejected,     \* rejected[n]: a promise of node n was rejected and nothing
                  \* handles the rejection
    told,         \* history: told[n][p], the number of lostPeer messages naming
                  \* p that n has originated since the process of p last ended
    advertised,   \* history: advertised[n][p], the module list of the last
                  \* moduleInfo of p that n has accepted, <<>> when none
    storage,      \* storage[n]: the ConfigStorage of node n
    ops,          \* ops[n]: node n's requests on their way to the database
    replies,      \* replies[n]: the database's answers on their way to n
    database      \* the database: the value of each bucket's record

vars == <<now, conf, heap, table, controller, curId, mods, iter, cache, sink,
          fb, sched, ws, inb, c2s, s2c, srvClose, delivered, redelivered, used,
          rejected, told, advertised, storage, ops, replies, database>>

\* the nodes whose process is up and whose begin() reached server.listen
Run == {n \in conf.run : conf.disk[n] \notin {"unreadable"} \cup BootStates}

NS(n) ==
    [name |-> n, heap |-> heap[n], table |-> table[n],
     controller |-> controller[n], curId |-> curId[n], mods |-> mods[n],
     iter |-> iter[n], cache |-> cache[n], sink |-> sink[n], fb |-> fb[n],
     sched |-> sched[n], ws |-> ws[n],
     ident |-> conf.ident[n], preferred |-> conf.preferred[n],
     storages |-> conf.storages[n], disk |-> conf.disk[n],
     rejected |-> rejected[n],
     storage |-> storage[n], ops |-> ops[n], replies |-> replies[n],
     now |-> now, out |-> <<>>, got |-> <<>>]

Msgs(q) == [i \in 1..Len(q) |-> q[i].msg]

\* Write back node n's state S after a callback and put what it sent on the
\* wire.  c0, s0: the channels once the callback's own frame is taken off;
\* kill: connections whose server-side socket the callback closed;
\* said: connections on which the server has now said hello; took: the
\* number of server-side "close" events the callback consumed.
CommitX(n, S, c0, s0, kill, said, took) ==
    LET opened == ws[n].state # "open" /\ S.ws.state = "open"
        closedByClient == ws[n].state = "open" /\ S.ws.state # "open"
        Gone(k) == k \in kill \/ (k = n /\ closedByClient)
        c2sOut == SelectSeq(S.out, LAMBDA e :
                     (e.to = "all" /\ e.exc # "client") \/ e.to = "client")
        s2cOut(k) == SelectSeq(S.out, LAMBDA e :
                     (e.to = "all" /\ e.exc # k) \/ e.to = k)
        ServedBy(k) == IF k = n THEN S.ws.to ELSE ws[k].to
        InbOpen(k) == IF k = n /\ opened THEN TRUE ELSE inb[k].open
    IN  /\ S.curId <= conf.maxId + 1
        /\ heap' = [heap EXCEPT ![n] = S.heap]
        /\ table' = [table EXCEPT ![n] = S.table]
        /\ controller' = [controller EXCEPT ![n] = S.controller]
        /\ curId' = [curId EXCEPT ![n] = S.curId]
        /\ mods' = [mods EXCEPT ![n] = S.mods]
        /\ iter' = [iter EXCEPT ![n] = S.iter]
        /\ cache' = [cache EXCEPT ![n] = S.cache]
        /\ sink' = [sink EXCEPT ![n] = S.sink]
        /\ fb' = [fb EXCEPT ![n] = S.fb]
        /\ sched' = [sched EXCEPT ![n] = S.sched]
        /\ rejected' = [rejected EXCEPT ![n] = S.rejected]
        /\ advertised' = [advertised EXCEPT ![n] = [p \in Node |->
                        LET I == {i \in 1..Len(S.got) :
                                     /\ S.got[i].type = "moduleInfo"
                                     /\ S.got[i].source = p}
                        IN  IF I = {} THEN @[p]
                            ELSE S.got[CHOOSE i \in I : \A j \in I : j <= i].modules]]
        /\ told' = [told EXCEPT ![n] = [p \in Node |->
                        @[p] + Cardinality({i \in 1..Len(S.out) :
                                  /\ S.out[i].msg.type = "lostPeer"
                                  /\ S.out[i].msg.source = n
                                  /\ S.out[i].msg.peer = p})]]
        /\ ws' = [k \in Node |->
                    LET w == IF k = n THEN S.ws ELSE ws[k]
                    IN  IF k \in kill THEN [w EXCEPT !.state = "closing"] ELSE w]
        /\ inb' = [k \in Node |->
                    IF Gone(k) THEN [open |-> FALSE, saidHello |-> FALSE]
                    ELSE IF k = n /\ opened THEN [open |-> TRUE, saidHello |-> FALSE]
                    ELSE IF k \in said THEN [inb[k] EXCEPT !.saidHello = TRUE]
                    ELSE inb[k]]
        /\ c2s' = [k \in Node |->
                    IF Gone(k) THEN <<>>
                    ELSE IF k = n /\ S.ws.state = "open"
                    THEN (IF opened THEN <<>> ELSE c0[k]) \o Msgs(c2sOut)
                    ELSE c0[k]]
        /\ s2c' = [k \in Node |->
                    IF Gone(k) THEN <<>>
                    ELSE IF k = n /\ opened THEN <<>>
                    ELSE IF ServedBy(k) = n /\ InbOpen(k)
                    THEN s0[k] \o Msgs(s2cOut(k))
                    ELSE s0[k]]
        /\ srvClose' = [t \in Node |->
                    srvClose[t] - (IF t = n THEN took ELSE 0)
                    + Cardinality({k \in Node :
                        Gone(k) /\ inb[k].open /\ ws[k].to = t})]
        /\ delivered' = [delivered EXCEPT ![n] =
                            @ \cup {<<S.got[i].source, S.got[i].id>> :
                                        i \in 1..Len(S.got)}]
        /\ redelivered' = [redelivered EXCEPT ![n] =
                            @ \cup {<<S.got[i].source, S.got[i].id>> :
                                        i \in {j \in 1..Len(S.got) :
                                            <<S.got[j].source, S.got[j].id>>
                                                \in delivered[n]}}]
        /\ storage' = [storage EXCEPT ![n] = S.storage]
        /\ ops' = [ops EXCEPT ![n] = S.ops]
        /\ replies' = [replies EXCEPT ![n] = S.replies]
        /\ UNCHANGED <<now, conf, database>>

Commit(n, S, c0, s0, kill, said) ==
    CommitX(n, S, c0, s0, kill, said, 0) /\ UNCHANGED used

(***************************************************************************)
(* Configurations a cluster is started with.                               *)
(***************************************************************************)
Ident0 == [version |-> 1, env |-> "prod", userId |-> "bot"]
ConfigNames == {"cfg"}
Scopes == {"guild"}
ConfigIds == {MaxMsgId + 100}     \* ids of configuration buckets, never message ids

NoMods == [m \in {} |-> 0]
Mod(available) == [available |-> available, handler |-> NoName]

StimulusKinds == {"retry", "status", "heartbeat", "expire", "drop", "tick",
                  "kill", "start", "get", "set", "setMany", "flush"}

\* two nodes, each connecting to the other: a reaches b through P2P_PEERS,
\* b knows a from its cache
ConfMesh ==
    [run |-> {"a", "b"},
     prio |-> [n \in Node |-> IF n = "a" THEN 1000 ELSE IF n = "b" THEN 1001 ELSE 1002],
     myaddr |-> [n \in Node |-> n],
     cached |-> [n \in Node |-> IF n = "b" THEN <<[name |-> "a", address |-> "a"]>>
                                ELSE <<>>],
     envPeers |-> [n \in Node |-> IF n = "a" THEN <<"b">> ELSE <<>>],
     mods |-> [n \in Node |->
                 IF n = "a" THEN [m \in ModuleNames |-> Mod(TRUE)]
                 ELSE IF n = "b" THEN [m \in {"m2"} |-> Mod(TRUE)]
                 ELSE NoMods],
     preferred |-> [n \in Node |-> <<>>],
     storages |-> [n \in Node |-> ConfigNames],
     ident |-> [n \in Node |-> Ident0],
     disk |-> [n \in Node |-> "ok"],
     gated |-> StimulusKinds, budget |-> MaxStimuli, maxId |-> MaxMsgId,
     script |-> <<>>]

\* two nodes and one connection: a reaches b through P2P_PEERS
ConfLine ==
    [ConfMesh EXCEPT !.cached = [n \in Node |-> <<>>]]


InitWith(c) ==
    /\ now = StartTime
    /\ conf = c
    /\ heap = [n \in Node |-> Constructed(n, c).heap]
    /\ table = [n \in Node |-> Constructed(n, c).table]
    /\ controller = [n \in Node |-> 0]
    /\ curId = [n \in Node |-> 1]
    /\ mods = [n \in Node |-> c.mods[n]]
    /\ iter = [n \in Node |-> 0]
    /\ cache = [n \in Node |-> c.cached[n]]
    /\ sink = [n \in Node |-> <<>>]
    /\ fb = [n \in Node |-> FALSE]
    /\ sched = [n \in Node |-> IF n \in c.run THEN Constructed(n, c).sched
                                             ELSE "none"]
    /\ rejected = [n \in Node |-> n \in c.run /\ Constructed(n, c).rejected]
    /\ told = [n \in Node |-> [p \in Node |-> 0]]
    /\ advertised = [n \in Node |-> [p \in Node |-> <<>>]]
    /\ ws = [n \in Node |-> NoSocket]
    /\ inb = [n \in Node |-> [open |-> FALSE, saidHello |-> FALSE]]
    /\ c2s = [n \in Node |-> <<>>]
    /\ s2c = [n \in Node |-> <<>>]
    /\ srvClose = [n \in Node |-> 0]
    /\ delivered = [n \in Node |-> {}]
    /\ redelivered = [n \in Node |-> {}]
    /\ used = [w \in Node \cup {"other"} |-> 0]
    /\ storage = [n \in Node |-> EmptyStorage]
    /\ ops = [n \in Node |-> <<>>]
    /\ replies = [n \in Node |-> <<>>]
    /\ database = [b \in Buckets |-> NoValue]

\* one node whose P2P_PEERS names its own server while P2P_MY_ADDRESS is unset
ConfLoop ==
    [ConfLine EXCEPT !.run = {"a"},
                     !.myaddr = [n \in Node |-> NoAddr],
                     !.envPeers = [n \in Node |-> IF n = "a" THEN <<"a">> ELSE <<>>],
                     !.mods = [n \in Node |->
                                 IF n = "a" THEN [m \in ModuleNames |-> Mod(m = "m1")]
                                 ELSE NoMods]]

\* the two-node cluster with node b started under another version, env or
\* user id than node a
OtherIdents ==
    {[Ident0 EXCEPT !.version = 2], [Ident0 EXCEPT !.env = "dev"],
     [Ident0 EXCEPT !.userId = "other"]}

ConfIdent(i) ==
    [ConfLine EXCEPT !.ident = [n \in Node |-> IF n = "b" THEN i ELSE Ident0],
                     !.budget = 1]

\* three nodes in a ring of connections: a reaches b, b reaches c, c reaches a
ConfRing ==
    [ConfLine EXCEPT !.run = {"a", "b", "c"},
                     !.envPeers = [n \in Node |-> IF n = "a" THEN <<"b">>
                                                  ELSE IF n = "b" THEN <<"c">>
                                                  ELSE <<"a">>],
                     !.mods = [n \in Node |-> NoMods],
                     !.maxId = MaxRingMsgId]

\* the two-node cluster in which node b is killed and started again at once
ConfRejoin ==
    [ConfLine EXCEPT !.script = <<<<"kill", "b">>, <<"start", "b">>>>]

\* Three nodes started one after the other: a alone, then b and c, which
\* reach a through P2P_PEERS; c has no P2P_MY_ADDRESS and prefers module m2.
\* Then a's checkStatus
\* timer fires, a is killed, more than P2P_HEARTBEAT_TIME + P2P_DEAD_TIME
\* passes, b and c send their heartbeats and their checkStatus timers fire.
\* In the first variant c has both modules, m1 not available to it; in the
\* second it has m2 only.
TrioScript ==
    <<<<"start", "b">>, <<"start", "c">>, <<"status", "a">>, <<"kill", "a">>,
      <<"tick", "other">>, <<"heartbeat", "b">>, <<"heartbeat", "c">>,
      <<"status", "b">>, <<"status", "c">>>>

ConfTrio(both) ==
    [ConfLine EXCEPT !.run = {"a"},
                     !.myaddr = [n \in Node |-> IF n = "c" THEN NoAddr ELSE n],
                     !.envPeers = [n \in Node |-> IF n = "a" THEN <<>> ELSE <<"a">>],
                     !.mods = [n \in Node |->
                                 IF n = "c" /\ both
                                 THEN [m \in ModuleNames |-> Mod(m = "m2")]
                                 ELSE IF n = "c" THEN [m \in {"m2"} |-> Mod(TRUE)]
                                 ELSE [m \in ModuleNames |-> Mod(TRUE)]],
                     !.preferred = [n \in Node |-> IF n = "c" THEN <<"m2">> ELSE <<>>],
                     !.script = TrioScript,
                     !.budget = Len(TrioScript),
                     !.maxId = MaxTrioMsgId]

\* the two-node cluster in which the Peer Address Cache file of a node
\* cannot be read, or cannot be written; no timer fires
DiskStates == {"ok", "unreadable", "unwritable"}

ConfDisk(da, db) ==
    [ConfLine EXCEPT !.disk = [n \in Node |-> IF n = "a" THEN da
                                               ELSE IF n = "b" THEN db ELSE "ok"],
                     !.budget = 0]

\* Three nodes around a hub: c runs alone, then a and b are started and
\* reach c through P2P_PEERS, so that what a sends reaches b through c.
\* Then a sends a heartbeat and is killed, and twice more than
\* P2P_HEARTBEAT_TIME + P2P_DEAD_TIME passes and b's checkStatus timer
\* fires.  The kill, the clock and b's timer do not wait for the frames in
\* flight.
HubScript ==
    <<<<"start", "a">>, <<"start", "b">>, <<"heartbeat", "a">>, <<"kill", "a">>,
      <<"tick", "other">>, <<"status", "b">>, <<"tick", "other">>,
      <<"status", "b">>>>

ConfHub ==
    [ConfLine EXCEPT !.run = {"c"},
                     !.envPeers = [n \in Node |-> IF n = "c" THEN <<>> ELSE <<"c">>],
                     !.mods = [n \in Node |-> NoMods],
                     !.gated = {"start", "heartbeat"},
                     !.script = HubScript,
                     !.budget = Len(HubScript),
                     !.maxId = MaxTrioMsgId]

\* the two-node cluster in which a's checkStatus timer fires, then more
\* than P2P_HEARTBEAT_TIME + P2P_DEAD_TIME passes without a heartbeat and
\* b's checkStatus timer fires
LapseScript ==
    <<<<"status", "a">>, <<"tick", "other">>, <<"status", "b">>>>

ConfLapse ==
    [ConfLine EXCEPT !.script = LapseScript,
                     !.budget = Len(LapseScript),
                     !.maxId = MaxTrioMsgId]

\* Three nodes, a running alone with both modules or with m2 only, then b
\* (both modules) and c (module m2 only) started in either order; both
\* reach a through P2P_PEERS, c prefers m2 and b prefers m1, or m1 and m2.
ConfAssign(first, pref, amods) ==
    [ConfLine EXCEPT !.run = {"a"},
                     !.myaddr = [n \in Node |-> IF n = "c" THEN NoAddr ELSE n],
                     !.envPeers = [n \in Node |-> IF n = "a" THEN <<>> ELSE <<"a">>],
                     !.mods = [n \in Node |->
                                 IF n = "c" THEN [m \in {"m2"} |-> Mod(TRUE)]
                                 ELSE IF n = "a" THEN [m \in amods |-> Mod(TRUE)]
                                 ELSE [m \in ModuleNames |-> Mod(TRUE)]],
                     !.preferred = [n \in Node |-> IF n = "c" THEN <<"m2">>
                                                   ELSE IF n = "b" THEN pref
                                                   ELSE <<>>],
                     !.script = IF first = "b"
                                THEN <<<<"start", "b">>, <<"start", "c">>>>
                                ELSE <<<<"start", "c">>, <<"start", "b">>>>,
                     !.budget = 2,
                     !.maxId = MaxTrioMsgId]

\* The two-node cluster in which both nodes come to handle m2: a's
\* checkStatus timer fires, the heartbeats stay out for more than
\* P2P_HEARTBEAT_TIME + P2P_DEAD_TIME, then the checkStatus timers of b and
\* of a fire.  Either a has m1 and m2 and b has m2, or both nodes have m1,
\* which is available to neither, and m2.
ConflictScript ==
    <<<<"status", "a">>, <<"tick", "other">>, <<"status", "b">>,
      <<"status", "a">>>>

ConfConflict(preceded) ==
    [ConfLine EXCEPT !.mods = [n \in Node |->
                                 IF preceded /\ n \in {"a", "b"}
                                 THEN [m \in ModuleNames |-> Mod(m = "m2")]
                                 ELSE ConfLine.mods[n]],
                     !.script = ConflictScript,
                     !.budget = Len(ConflictScript),
                     !.maxId = MaxTrioMsgId]

\* Three nodes around the hub c, which has both modules and runs alone
\* first.  a (module m2, or m1 and m2) prefers m2 and b (module m1) prefers
\* m1; both are started and reach c through P2P_PEERS.  Then a is killed,
\* more than P2P_HEARTBEAT_TIME + P2P_DEAD_TIME passes, c and b send their
\* heartbeats and b's checkStatus timer fires.
FalloutScript ==
    <<<<"start", "a">>, <<"start", "b">>, <<"kill", "a">>, <<"tick", "other">>,
      <<"heartbeat", "c">>, <<"heartbeat", "b">>, <<"status", "b">>>>

ConfFallout(full) ==
    [ConfLine EXCEPT !.run = {"c"},
                     !.envPeers = [n \in Node |-> IF n = "c" THEN <<>> ELSE <<"c">>],
                     !.mods = [n \in Node |->
                                 IF n = "c" \/ (n = "a" /\ full)
                                 THEN [m \in ModuleNames |-> Mod(TRUE)]
                                 ELSE IF n = "a" THEN [m \in {"m2"} |-> Mod(TRUE)]
                                 ELSE [m \in {"m1"} |-> Mod(TRUE)]],
                     !.preferred = [n \in Node |-> IF n = "a" THEN <<"m2">>
                                                   ELSE IF n = "b" THEN <<"m1">>
                                                   ELSE <<>>],
                     !.script = FalloutScript,
                     !.budget = Len(FalloutScript),
                     !.maxId = MaxTrioMsgId]

\* two connected nodes without modules: a module of b reads a bucket, a
\* module of a writes one with set, or with setMany, and b reads again
StoreScript(many) ==
    <<<<"get", "b">>, <<IF many THEN "setMany" ELSE "set", "a">>, <<"get", "b">>>>

ConfStore(many) ==
    [ConfLine EXCEPT !.mods = [n \in Node |-> NoMods],
                     !.script = StoreScript(many),
                     !.budget = Len(StoreScript(many))]

\* one node that has no peer and whose collaborators read the
\* configuration and flush its caches
MaxFlushCalls == 4

ConfFlush ==
    [ConfLine EXCEPT !.run = {"a"},
                     !.envPeers = [n \in Node |-> <<>>],
                     !.mods = [n \in Node |-> NoMods],
                     !.budget = MaxFlushCalls]

\* two nodes: a lists in P2P_PEERS the address of b and one that makes no
\* URL, in either order
ConfScan(first) ==
    [ConfLine EXCEPT !.envPeers =
        [n \in Node |-> IF n # "a" THEN <<>>
                        ELSE IF first THEN <<"not a url", "b">>
                        ELSE <<"b", "not a url">>]]

\* two nodes: a reaches b through P2P_PEERS, and the cache of b lists c,
\* which is not running
ConfStale ==
    [ConfLine EXCEPT !.cached = [n \in Node |->
        IF n = "b" THEN <<[name |-> "c", address |-> "c"]>> ELSE <<>>]]

\* as ConfAssign with both modules on a, but module m1, which b lists in
\* P2P_PREFERRED_MODULES, is not available to b
ConfPrefer(first) ==
    [ConfAssign(first, <<"m1">>, ModuleNames) EXCEPT
        !.mods["b"] = [m \in ModuleNames |-> Mod(m # "m1")]]

Configs == {ConfLine, ConfLoop} \cup {ConfIdent(i) : i \in OtherIdents}

Init == \E c \in Configs : InitWith(c)

(***************************************************************************)
(* Actions: one per event-loop callback.                                   *)
(***************************************************************************)
\* no frame is in flight and no callback is waiting to run at once
Quiet ==
    \A n \in Node :
        /\ c2s[n] = <<>> /\ s2c[n] = <<>>
        /\ sched[n] # "next" /\ ws[n].state # "closing"
        /\ srvClose[n] = 0

\* Timer callbacks, calls from collaborators, lost connections and clock
\* steps are counted; a configuration names the kinds it explores at quiet
\* points only.
UsedTotal == used["a"] + used["b"] + used["c"] + used["other"]

\* A configuration with a script allows the events the script lists, in
\* its order, and no others.
Stimulus(kind, n) ==
    /\ UsedTotal < conf.budget
    /\ kind \in conf.gated => Quiet
    /\ conf.script # <<>> =>
          /\ UsedTotal < Len(conf.script)
          /\ conf.script[UsedTotal + 1] = <<kind, n>>
    /\ used' = [used EXCEPT ![IF kind = "status" THEN n ELSE "other"] = @ + 1]

\* setImmediate(() => this.connectNextPeer()) and the call made by begin()
ConnectNext(n) ==
    /\ n \in Run /\ sched[n] = "next"
    /\ Commit(n, connectNextPeer(NS(n), Run), c2s, s2c, {}, {})

\* setTimeout(() => this.connectNextPeer(), PEER_RETRY_TIME)
RetryTimer(n) ==
    /\ n \in Run /\ sched[n] = "retry"
    /\ Stimulus("retry", n)
    /\ CommitX(n, connectNextPeer(NS(n), Run), c2s, s2c, {}, {}, 0)

\* client socket "close" (after "error", a rejected hello or a lost connection)
ClientClose(n) ==
    /\ n \in Run /\ ws[n].state = "closing"
    /\ Commit(n, connectNextPeer(NS(n), Run), c2s, s2c, {}, {})

\* client socket "message"
ClientRecv(n) ==
    /\ n \in Run /\ ws[n].state = "open" /\ s2c[n] # <<>>
    /\ Commit(n, clientOnMessage(NS(n), Head(s2c[n])),
              c2s, [s2c EXCEPT ![n] = Tail(@)], {}, {})

\* server socket "message" for the connection of client k
ServerRecv(k) ==
    /\ k \in Run /\ inb[k].open /\ c2s[k] # <<>>
    /\ LET n == ws[k].to
           message == Head(c2s[k])
           c0 == [c2s EXCEPT ![k] = Tail(@)]
       IN  IF inb[k].saidHello
           THEN Commit(n, onMessage(NS(n), message, k), c0, s2c, {}, {})
           ELSE IF message.type # "hello"
           THEN Commit(n, NS(n), c0, s2c, {k}, {})
           ELSE Commit(n, sendMessageTo(NS(n), HelloMsg(NS(n)), k), c0, s2c, {}, {k})

\* server socket "close"
ServerClose(n) ==
    /\ n \in Run /\ srvClose[n] > 0
    /\ CommitX(n, checkStatus(NS(n)), c2s, s2c, {}, {}, 1)
    /\ UNCHANGED used

\* setInterval(() => this.checkStatus(), P2P_CHECK_TIME)
CheckStatusTimer(n) ==
    /\ n \in Run
    /\ Stimulus("status", n)
    /\ CommitX(n, checkStatus(NS(n)), c2s, s2c, {}, {}, 0)

\* the interval of heartbeat()
HeartbeatTimer(n) ==
    /\ n \in Run
    /\ Stimulus("heartbeat", n)
    /\ CommitX(n, sendMessage(NS(n), [BaseMsg EXCEPT !.type = "heartbeat"], "none"),
               c2s, s2c, {}, {}, 0)

\* handlePeerConnectionFail resumes after sleep(P2P_GIVE_UP_TIME)
GiveUpTimer(n) ==
    /\ n \in Run /\ fb[n]
    /\ Commit(n, afterGiveUpTime(NS(n)), c2s, s2c, {}, {})

\* the configuration collaborator calls syncHandler.expireConfigCache
ExpireConfigCache(n, configName, scope, id) ==
    /\ n \in Run
    /\ Stimulus("expire", n)
    /\ CommitX(n, sendMessage(NS(n), [BaseMsg EXCEPT !.type = "expireConfigCache",
                                                     !.configName = configName,
                                                     !.scope = scope,
                                                     !.id = id], "none"),
               c2s, s2c, {}, {}, 0)

\* a module reads a value: storage.user(id).get(key), and likewise for a
\* guild and for the global bucket
ConfigGet(n, scope, id) ==
    /\ n \in Run
    /\ Stimulus("get", n)
    /\ LET S == [NS(n) EXCEPT !.storage = Access(@, scope, id)]
       IN  CommitX(n, get(S, Bucket(S.storage, scope, id)), c2s, s2c, {}, {}, 0)

\* a module writes a value with set(key, value); a plain value goes
\* through _set and an object through _setObject, which await alike
ConfigSet(n, scope, id, value) ==
    /\ n \in Run
    /\ Stimulus("set", n)
    /\ LET S == [NS(n) EXCEPT !.storage = Access(@, scope, id)]
       IN  CommitX(n, set(S, Bucket(S.storage, scope, id), value),
                   c2s, s2c, {}, {}, 0)

\* a module writes with setMany(data)
ConfigSetMany(n, scope, id, value) ==
    /\ n \in Run
    /\ Stimulus("setMany", n)
    /\ LET S == [NS(n) EXCEPT !.storage = Access(@, scope, id)]
       IN  CommitX(n, setMany(S, Bucket(S.storage, scope, id), value),
                   c2s, s2c, {}, {}, 0)

\* ConfigStorage.expireCache(scope, id) is called
ExpireCache(n, scope, id) ==
    /\ n \in Run
    /\ Stimulus("flush", n)
    /\ CommitX(n, [NS(n) EXCEPT !.storage = expireCache(@, scope, id)],
               c2s, s2c, {}, {}, 0)

\* the database serves the oldest request of node n: a getList reads the
\* record, an update or create writes it; the answer goes back to n
DbServe(n) ==
    /\ ops[n] # <<>>
    /\ LET r == Head(ops[n])
           key == <<r.scope, r.id>>
           answer == [kind |-> r.kind, obj |-> r.obj, scope |-> r.scope,
                      id |-> r.id, value |-> r.value, cont |-> r.cont,
                      result |-> IF r.kind = "getList" THEN database[key]
                                 ELSE r.value]
       IN  /\ database' = IF r.kind = "getList" THEN database
                          ELSE [database EXCEPT ![key] = r.value]
           /\ ops' = [ops EXCEPT ![n] = Tail(@)]
           /\ replies' = [replies EXCEPT ![n] =
                            IF n \in conf.run THEN Append(@, answer) ELSE @]
    /\ UNCHANGED <<now, conf, heap, table, controller, curId, mods, iter, cache,
                   sink, fb, sched, ws, inb, c2s, s2c, srvClose, delivered,
                   redelivered, used, rejected, told, advertised, storage>>

\* the promise of a database request of node n is settled and the code
\* awaiting it goes on
DbReply(n) ==
    /\ n \in Run /\ replies[n] # <<>>
    /\ Commit(n, resume([NS(n) EXCEPT !.replies = Tail(@)], Head(replies[n])),
              c2s, s2c, {}, {})

\* the connection of client k is lost
Drop(k) ==
    /\ k \in Run /\ ws[k].state = "open"
    /\ Stimulus("drop", k)
    /\ ws' = [ws EXCEPT ![k].state = "closing"]
    /\ inb' = [inb EXCEPT ![k] = [open |-> FALSE, saidHello |-> FALSE]]
    /\ c2s' = [c2s EXCEPT ![k] = <<>>]
    /\ s2c' = [s2c EXCEPT ![k] = <<>>]
    /\ srvClose' = [srvClose EXCEPT ![ws[k].to] = @ + 1]
    /\ UNCHANGED <<now, conf, heap, table, controller, curId, mods, iter, cache,
                   sink, fb, sched, delivered, redelivered, rejected, told,
                   advertised, storage, ops, replies, database>>

\* time passes: longer than a heartbeat may be late, and longer than the
\* sleep of handlePeerConnectionFail, which therefore is not pending
Tick ==
    /\ \A n \in Node : ~fb[n]
    /\ Stimulus("tick", "other")
    /\ now' = now + TimeStep
    /\ UNCHANGED <<conf, heap, table, controller, curId, mods, iter, cache, sink,
                   fb, sched, ws, inb, c2s, s2c, srvClose, delivered, redelivered,
                   rejected, told, advertised, storage, ops, replies, database>>

\* the process of node n ends: its timers stop, its sockets and the
\* sockets connected to its server close
Exit(n) ==
    LET lost == {k \in Node \ {n} : ws[k].to = n /\ ws[k].state = "open"}
        gone == lost \cup {n}
    IN  /\ conf' = [conf EXCEPT !.run = @ \ {n}]
        /\ ws' = [k \in Node |->
                    IF k = n THEN NoSocket
                    ELSE IF k \in lost THEN [ws[k] EXCEPT !.state = "closing"]
                    ELSE ws[k]]
        /\ inb' = [k \in Node |->
                    IF k \in gone THEN [open |-> FALSE, saidHello |-> FALSE]
                    ELSE inb[k]]
        /\ c2s' = [k \in Node |-> IF k \in gone THEN <<>> ELSE c2s[k]]
        /\ s2c' = [k \in Node |-> IF k \in gone THEN <<>> ELSE s2c[k]]
        /\ srvClose' = [t \in Node |->
                    IF t = n THEN 0
                    ELSE IF ws[n].state = "open" /\ ws[n].to = t /\ inb[n].open
                    THEN srvClose[t] + 1
                    ELSE srvClose[t]]
        /\ sched' = [sched EXCEPT ![n] = "none"]
        /\ fb' = [fb EXCEPT ![n] = FALSE]
        /\ rejected' = [rejected EXCEPT ![n] = FALSE]
        /\ told' = [m \in Node |->
                     IF m = n THEN [p \in Node |-> 0] ELSE [told[m] EXCEPT ![n] = 0]]
        /\ advertised' = [advertised EXCEPT ![n] = [p \in Node |-> <<>>]]
        /\ storage' = [storage EXCEPT ![n] = EmptyStorage]
        /\ replies' = [replies EXCEPT ![n] = <<>>]
        /\ UNCHANGED <<now, heap, table, controller, curId, mods, iter, cache,
                       sink, delivered, redelivered, ops, database>>

\* the process of node n is killed
Kill(n) ==
    /\ n \in Run
    /\ Stimulus("kill", n)
    /\ Exit(n)

\* A rejected promise that nothing handles: Node.js 15 and later end the
\* process on it (--unhandled-rejections=throw is their default), earlier
\* versions print a warning and go on.  The step may be taken or not.
UnhandledRejection(n) ==
    /\ n \in conf.run /\ rejected[n]
    /\ Exit(n)
    /\ UNCHANGED used

\* the process of node n is started: new SyncHandler(bot) and begin() with
\* the Peer Address Cache file as it was left.  Date.now() gives the
\* priority; events that follow one another are a millisecond apart.
Start(n) ==
    LET c == [conf EXCEPT !.cached[n] = cache[n], !.prio[n] = now + UsedTotal]
        S == Constructed(n, c)
    IN  /\ n \in Node \ conf.run
        /\ Stimulus("start", n)
        /\ conf' = [conf EXCEPT !.run = @ \cup {n}]
        /\ heap' = [heap EXCEPT ![n] = S.heap]
        /\ table' = [table EXCEPT ![n] = S.table]
        /\ controller' = [controller EXCEPT ![n] = 0]
        /\ curId' = [curId EXCEPT ![n] = 1]
        /\ mods' = [mods EXCEPT ![n] = conf.mods[n]]
        /\ iter' = [iter EXCEPT ![n] = 0]
        /\ sink' = [sink EXCEPT ![n] = <<>>]
        /\ fb' = [fb EXCEPT ![n] = FALSE]
        /\ sched' = [sched EXCEPT ![n] = S.sched]
        /\ rejected' = [rejected EXCEPT ![n] = S.rejected]
        /\ ws' = [ws EXCEPT ![n] = NoSocket]
        /\ delivered' = [delivered EXCEPT ![n] = {}]
        /\ redelivered' = [redelivered EXCEPT ![n] = {}]
        /\ UNCHANGED <<now, cache, inb, c2s, s2c, srvClose, told, advertised,
                       storage, ops, replies, database>>

\* makeSureDataFileExists: the callback of access finds no file and calls
\* writeFile, which opens the file and so creates it, empty
FileCreate(n) ==
    /\ n \in conf.run /\ conf.disk[n] = "missing"
    /\ conf' = [conf EXCEPT !.disk[n] = "empty"]
    /\ UNCHANGED <<now, heap, table, controller, curId, mods, iter, cache,
                   sink, fb, sched, ws, inb, c2s, s2c, srvClose, delivered,
                   redelivered, used, rejected, told, advertised, storage,
                   ops, replies, database>>

\* makeSureDataFileExists: writeFile writes { peers: [] } and closes the file
FileWrite(n) ==
    /\ n \in conf.run /\ conf.disk[n] = "empty"
    /\ conf' = [conf EXCEPT !.disk[n] = "written"]
    /\ cache' = [cache EXCEPT ![n] = <<>>]
    /\ UNCHANGED <<now, heap, table, controller, curId, mods, iter, sink, fb,
                   sched, ws, inb, c2s, s2c, srvClose, delivered, redelivered,
                   used, rejected, told, advertised, storage, ops, replies,
                   database>>

\* The readFile of begin() completes.  With no file it fails (ENOENT) and
\* read() rejects; with the empty file JSON.parse throws and read() rejects;
\* begin() ends there as for a cache that cannot be read, and what
\* writeFile still does to the file is nothing this process looks at
\* again.  With the written file begin() goes on to server.listen.
BeginRead(n) ==
    LET c == [conf EXCEPT !.disk[n] = IF @ = "written" THEN "ok"
                                                       ELSE "unreadable",
                          !.cached[n] = cache[n],
                          !.prio[n] = heap[n][MyselfObj].priority]
        S == Constructed(n, c)
    IN  /\ n \in conf.run /\ conf.disk[n] \in BootStates
        /\ conf' = [conf EXCEPT !.disk[n] = c.disk[n]]
        /\ heap' = [heap EXCEPT ![n] = S.heap]
        /\ table' = [table EXCEPT ![n] = S.table]
        /\ sched' = [sched EXCEPT ![n] = S.sched]
        /\ rejected' = [rejected EXCEPT ![n] = S.rejected]
        /\ UNCHANGED <<now, controller, curId, mods, iter, cache, sink, fb, ws,
                       inb, c2s, s2c, srvClose, delivered, redelivered, used,
                       told, advertised, storage, ops, replies, database>>

Next ==
    \/ \E n \in Node : ConnectNext(n)
    \/ \E n \in Node : RetryTimer(n)
    \/ \E n \in Node : ClientClose(n)
    \/ \E n \in Node : ClientRecv(n)
    \/ \E k \in Node : ServerRecv(k)
    \/ \E n \in Node : ServerClose(n)
    \/ \E n \in Node : CheckStatusTimer(n)
    \/ \E n \in Node : HeartbeatTimer(n)
    \/ \E n \in Node : GiveUpTimer(n)
    \/ \E n \in Node, c \in ConfigNames, s \in Scopes, i \in ConfigIds :
          ExpireConfigCache(n, c, s, i)
    \/ \E k \in Node : Drop(k)
    \/ Tick

Spec == Init /\ [][Next]_vars

\* the cluster in which every message reaches a node over two paths
InitMesh == InitWith(ConfMesh)

SpecMesh == InitMesh /\ [][Next]_vars

\* the scripted three-node run
InitTrio == \E both \in BOOLEAN : InitWith(ConfTrio(both))

NextTrio ==
    \/ \E n \in Node : ConnectNext(n)
    \/ \E n \in Node : ClientClose(n)
    \/ \E n \in Node : ClientRecv(n)
    \/ \E k \in Node : ServerRecv(k)
    \/ \E n \in Node : CheckStatusTimer(n)
    \/ \E n \in Node : HeartbeatTimer(n)
    \/ \E n \in Node : GiveUpTimer(n)
    \/ Tick
    \/ \E n \in Node : Kill(n)
    \/ \E n \in Node : Start(n)

SpecTrio == InitTrio /\ [][NextTrio]_vars

\* the Peer Address Cache fails at one node or at both
InitDisk ==
    \E da \in DiskStates, db \in DiskStates :
        /\ <<da, db>> # <<"ok", "ok">>
        /\ InitWith(ConfDisk(da, db))

NextDisk ==
    \/ \E n \in Node : ConnectNext(n)
    \/ \E n \in Node : ClientClose(n)
    \/ \E n \in Node : ClientRecv(n)
    \/ \E k \in Node : ServerRecv(k)
    \/ \E n \in Node : ServerClose(n)
    \/ \E n \in Node : GiveUpTimer(n)
    \/ \E n \in Node : UnhandledRejection(n)

SpecDisk == InitDisk /\ [][NextDisk]_vars

\* the first starts: the file operations of the constructor and of begin()
\* complete in any order
InitBoot ==
    \E da \in {"missing", "ok"}, db \in {"missing", "ok"} :
        /\ <<da, db>> # <<"ok", "ok">>
        /\ InitWith(ConfDisk(da, db))

NextBoot ==
    \/ \E n \in Node : ConnectNext(n)
    \/ \E n \in Node : ClientClose(n)
    \/ \E n \in Node : ClientRecv(n)
    \/ \E k \in Node : ServerRecv(k)
    \/ \E n \in Node : GiveUpTimer(n)
    \/ \E n \in Node : UnhandledRejection(n)
    \/ \E n \in Node : FileCreate(n)
    \/ \E n \in Node : FileWrite(n)
    \/ \E n \in Node : BeginRead(n)

SpecBoot == InitBoot /\ [][NextBoot]_vars

\* the run in which a node dies while its heartbeat is on its way
InitHub == InitWith(ConfHub)

NextHub ==
    \/ \E n \in Node : ConnectNext(n)
    \/ \E n \in Node : ClientRecv(n)
    \/ \E k \in Node : ServerRecv(k)
    \/ \E n \in Node : ServerClose(n)
    \/ \E n \in Node : CheckStatusTimer(n)
    \/ \E n \in Node : HeartbeatTimer(n)
    \/ Tick
    \/ \E n \in Node : Kill(n)
    \/ \E n \in Node : Start(n)

SpecHub == InitHub /\ [][NextHub]_vars

\* the run in which the heartbeats of a live node stay out
InitLapse == InitWith(ConfLapse)

NextLapse ==
    \/ \E n \in Node : ConnectNext(n)
    \/ \E n \in Node : ClientRecv(n)
    \/ \E k \in Node : ServerRecv(k)
    \/ \E n \in Node : CheckStatusTimer(n)
    \/ \E n \in Node : GiveUpTimer(n)
    \/ Tick

SpecLapse == InitLapse /\ [][NextLapse]_vars

\* the runs in which joining nodes request their preferred modules
InitAssign ==
    \E first \in {"b", "c"}, pref \in {<<"m1">>, <<"m1", "m2">>},
       amods \in {ModuleNames, {"m2"}} :
        InitWith(ConfAssign(first, pref, amods))

NextAssign ==
    \/ \E n \in Node : ConnectNext(n)
    \/ \E n \in Node : ClientRecv(n)
    \/ \E k \in Node : ServerRecv(k)
    \/ \E n \in Node : GiveUpTimer(n)
    \/ \E n \in Node : Start(n)

SpecAssign == InitAssign /\ [][NextAssign]_vars

\* the runs in which two nodes handle the same module
InitConflict == \E preceded \in BOOLEAN : InitWith(ConfConflict(preceded))

SpecConflict == InitConflict /\ [][NextLapse]_vars

\* the runs in which a controller learns of a death from a lostPeer
InitFallout == \E full \in BOOLEAN : InitWith(ConfFallout(full))

NextFallout ==
    \/ \E n \in Node : ConnectNext(n)
    \/ \E n \in Node : ClientRecv(n)
    \/ \E k \in Node : ServerRecv(k)
    \/ \E n \in Node : ServerClose(n)
    \/ \E n \in Node : CheckStatusTimer(n)
    \/ \E n \in Node : HeartbeatTimer(n)
    \/ \E n \in Node : GiveUpTimer(n)
    \/ Tick
    \/ \E n \in Node : Kill(n)
    \/ \E n \in Node : Start(n)

SpecFallout == InitFallout /\ [][NextFallout]_vars

\* the runs in which the configuration is read and written
InitStore == \E many \in BOOLEAN : InitWith(ConfStore(many))

NextStore ==
    \/ \E n \in Node : ConnectNext(n)
    \/ \E n \in Node : ClientRecv(n)
    \/ \E k \in Node : ServerRecv(k)
    \/ \E n \in Node, b \in Buckets : ConfigGet(n, b[1], b[2])
    \/ \E n \in Node, b \in Buckets, v \in ConfigValues :
          ConfigSet(n, b[1], b[2], v)
    \/ \E n \in Node, b \in Buckets, v \in ConfigValues :
          ConfigSetMany(n, b[1], b[2], v)
    \/ \E n \in Node : DbServe(n)
    \/ \E n \in Node : DbReply(n)

SpecStore == InitStore /\ [][NextStore]_vars

\* the runs in which one node's caches are filled and flushed
InitFlush == InitWith(ConfFlush)

NextFlush ==
    \/ \E n \in Node : ConnectNext(n)
    \/ \E n \in Node, b \in Buckets : ConfigGet(n, b[1], b[2])
    \/ \E n \in Node, b \in Buckets : ExpireCache(n, b[1], b[2])
    \/ \E n \in Node : DbServe(n)
    \/ \E n \in Node : DbReply(n)

SpecFlush == InitFlush /\ [][NextFlush]_vars

\* the runs in which the scanner meets an address that makes no URL
InitScan == \E first \in BOOLEAN : InitWith(ConfScan(first))

SpecScan == InitScan /\ [][Next]_vars

\* the runs in which a node holds a cached peer that is not running
InitStale == InitWith(ConfStale)

SpecStale == InitStale /\ [][Next]_vars

\* the runs in which a node asks for a module that is not available to it
InitPrefer == \E first \in {"b", "c"} : InitWith(ConfPrefer(first))

SpecPrefer == InitPrefer /\ [][NextAssign]_vars

\* a node is killed and restarted
InitRejoin == InitWith(ConfRejoin)

NextRejoin ==
    \/ \E n \in Node : ConnectNext(n)
    \/ \E n \in Node : ClientClose(n)
    \/ \E n \in Node : ClientRecv(n)
    \/ \E k \in Node : ServerRecv(k)
    \/ \E n \in Node : ServerClose(n)
    \/ \E n \in Node : GiveUpTimer(n)
    \/ \E n \in Node : Kill(n)
    \/ \E n \in Node : Start(n)

SpecRejoin == InitRejoin /\ [][NextRejoin]_vars

\* the cluster in which a message passes through a node that relays it
InitRing == InitWith(ConfRing)

NextRing ==
    \/ \E n \in Node : ConnectNext(n)
    \/ \E n \in Node : ClientRecv(n)
    \/ \E k \in Node : ServerRecv(k)

SpecRing == InitRing /\ [][NextRing]_vars

(***************************************************************************)
(* Claims                                                                  *)
(***************************************************************************)

\* C1: duplicate suppression.  A node processes a message identified by
\* (source, id) at most once, across deaths and revivals of its source too:
\* no message is accepted that the node had accepted before.
NoMessageProcessedTwice ==
    \A n \in Node : redelivered[n] = {}

\* what a callback of node n leaves alone when it changes nothing
NodeUnchanged(n) ==
    /\ heap'[n] = heap[n] /\ table'[n] = table[n]
    /\ controller'[n] = controller[n] /\ curId'[n] = curId[n]
    /\ mods'[n] = mods[n] /\ cache'[n] = cache[n] /\ sink'[n] = sink[n]
    /\ fb'[n] = fb[n] /\ sched'[n] = sched[n] /\ iter'[n] = iter[n]
    /\ ws'[n] = ws[n]

NothingSent ==
    \A k \in Node : Len(c2s'[k]) <= Len(c2s[k]) /\ Len(s2c'[k]) <= Len(s2c[k])

\* the peer object node n finds for the source of a message, 0 when none
SourcePeer(n, message) == MapGet(table[n], message.source)

\* onMessage at node n reaches its duplicate test with this message
Tested(n, message) ==
    message.source # n /\ SourcePeer(n, message) # 0

\* C2: FIFO per source.  A message from a known source whose id is not
\* greater than the lastMessageId stored for the source is discarded: the
\* callback changes nothing and sends nothing, so whatever reaches a handler
\* has a strictly greater id; a message with a greater id sets the stored
\* lastMessageId to its id.
FifoPerSource ==
    [][/\ \A k \in Run :
             (/\ inb[k].saidHello /\ c2s[k] # <<>>
              /\ Tested(ws[k].to, Head(c2s[k]))
              /\ ServerRecv(k))
                 => LET n == ws[k].to
                        m == Head(c2s[k])
                    IN  IF heap[n][SourcePeer(n, m)].lastMessageId >= m.id
                        THEN NodeUnchanged(n) /\ NothingSent
                        ELSE heap'[n][SourcePeer(n, m)].lastMessageId = m.id
       /\ \A n \in Run :
             (/\ ws[n].gotHello /\ s2c[n] # <<>>
              /\ Head(s2c[n]).type # "hello"
              /\ Tested(n, Head(s2c[n]))
              /\ ClientRecv(n))
                 => LET m == Head(s2c[n])
                    IN  IF heap[n][SourcePeer(n, m)].lastMessageId >= m.id
                        THEN NodeUnchanged(n) /\ NothingSent
                        ELSE heap'[n][SourcePeer(n, m)].lastMessageId = m.id]_vars

\* a node has handed a message to a handler, holds its id as the stored
\* lastMessageId, and a second copy of the message is on its way to it
FifoPerSource_witness ==
    \E n \in Run : \E k \in Run :
        /\ ws[k].to = n /\ inb[k].saidHello /\ c2s[k] # <<>>
        /\ <<Head(c2s[k]).source, Head(c2s[k]).id>> \in delivered[n]
        /\ Tested(n, Head(c2s[k]))
        /\ heap[n][SourcePeer(n, Head(c2s[k]))].lastMessageId = Head(c2s[k]).id

\* this frame, taken by onMessage at node n, revives peer object k
Revives(n, k, message) ==
    /\ message.type \in {"heartbeat", "instanceInfo"}
    /\ message.source # n
    /\ SourcePeer(n, message) = k
    /\ heap[n][k].lastMessageId < message.id

\* C9: knownDead latch.  A peer that is knownDead stays knownDead through
\* every callback, except one in which a heartbeat or instanceInfo of that
\* peer is accepted and processed.
KnownDeadLatch ==
    [][\A n \in Run : \A k \in DOMAIN heap[n] :
          (heap[n][k].knownDead /\ ~heap'[n][k].knownDead)
              => \/ \E c \in Run :
                       /\ ws[c].to = n /\ inb[c].saidHello /\ c2s[c] # <<>>
                       /\ Revives(n, k, Head(c2s[c]))
                       /\ ServerRecv(c)
                 \/ /\ ws[n].gotHello /\ s2c[n] # <<>>
                    /\ Revives(n, k, Head(s2c[n]))
                    /\ ClientRecv(n)]_vars

\* a peer is knownDead although a message of it has been accepted since it
\* was declared dead (which set its lastMessageId to 0)
KnownDeadLatch_witness ==
    \E n \in Run : \E k \in DOMAIN heap[n] :
        /\ k # MyselfObj
        /\ heap[n][k].knownDead
        /\ heap[n][k].lastMessageId > 0

\* the name of the peer object node n holds as its controller
ControllerName(n) == heap[n][controller[n]].name

InControl(n) == controller[n] # 0 /\ ControllerName(n) = n

\* C3: at most one controller across nodes.  Once messages have drained,
\* the controller of every node is the node itself or a peer that holds
\* itself as controller, and no two running nodes both hold themselves as
\* controller.
AtMostOneController ==
    Quiet =>
        /\ \A n \in Run : controller[n] # 0 =>
              \/ ControllerName(n) = n
              \/ /\ ControllerName(n) \in Run
                 /\ controller[ControllerName(n)] # 0 => InControl(ControllerName(n))
        /\ Cardinality({n \in Run : InControl(n)}) <= 1

\* C6: cache-invalidation fanout.  A sink is invoked only with the
\* configuration name, scope and id of an expireConfigCache call, once for
\* each call, and never at the node that made the call.
ExpireFanout ==
    \A n \in Node :
        /\ \A i \in 1..Len(sink[n]) :
              /\ sink[n][i].configName \in ConfigNames
              /\ sink[n][i].scope \in Scopes
              /\ sink[n][i].id \in ConfigIds
        /\ \A i, j \in 1..Len(sink[n]) : sink[n][i] = sink[n][j] => i = j

\* C8: Peer Table key invariant.  Every entry of the Peer Table is stored
\* under the name of its peer object, and the local instance name is the
\* key of the node's own peer object.
PeerTableKeys ==
    \A n \in Run :
        /\ \A i \in 1..Len(table[n]) : heap[n][table[n][i].obj].name = table[n][i].key
        /\ MapGet(table[n], n) = MyselfObj

\* some live peer's stored moduleInfo shows module m handled, after the step
RemoteHandlerAfter(n, m) ==
    \E i \in 1..Len(table'[n]) :
        LET peer == heap'[n][table'[n][i].obj]
        IN  /\ Alive(peer, now')
            /\ peer.hasModules
            /\ \E j \in 1..Len(peer.modules) :
                  peer.modules[j].name = m /\ peer.modules[j].handling

\* C10: controller reconciliation.  After a checkStatus tick at a node in
\* control, every local module that is available and that no live peer's
\* stored moduleInfo shows handled under its own name is handled by the node.
ControllerReconciliation ==
    [][\A n \in Run :
          (CheckStatusTimer(n) /\ InControl(n))
              => \A m \in DOMAIN mods[n] :
                    (mods'[n][m].available /\ ~RemoteHandlerAfter(n, m))
                        => mods'[n][m].handler = n]_vars

\* C7: local controller invariant.  The controller of a node is unset, the
\* node itself, or a peer that is not knownDead and whose last heartbeat has
\* not expired.
LocalControllerAlive ==
    \A n \in Run :
        \/ controller[n] = 0
        \/ ControllerName(n) = n
        \/ Alive(heap[n][controller[n]], now)

\* the nodes that handle module m themselves
Handlers(m) == {n \in Run : m \in DOMAIN mods[n] /\ mods[n][m].handler = n}

\* no node has been silent for longer than a heartbeat may be late, nothing
\* but checkStatus ticks has happened since the connections were made, and no
\* frame is in flight
Stable ==
    /\ Quiet
    /\ now = StartTime
    /\ used["other"] = 0

\* C5: module coverage.  With a controller in place and a set of live peers
\* that does not change, after two checkStatus ticks of the controller every
\* module available on some node has exactly one node handling it itself.
ModuleCoverage ==
    \A c \in Run :
        (Stable /\ InControl(c) /\ used[c] >= 2)
            => \A n \in Run : \A m \in DOMAIN mods[n] :
                  mods[n][m].available => Cardinality(Handlers(m)) = 1

\* the best priority among the running nodes
BestPriority ==
    CHOOSE p \in {heap[n][MyselfObj].priority : n \in Run} :
        \A n \in Run : p <= heap[n][MyselfObj].priority

\* every running node has a controller whose priority is the best one
Converged ==
    \A n \in Run :
        /\ controller[n] # 0
        /\ heap[n][controller[n]].priority = BestPriority

\* every running node has an open connection with another one
Linked ==
    \A n \in Run : \E k \in Run \ {n} :
        \/ ws[n].state = "open" /\ ws[n].to = k /\ ws[n].gotHello
        \/ ws[k].state = "open" /\ ws[k].to = n /\ inb[k].saidHello

\* the end of a run: no frame in flight, no callback pending, no timer left
Final ==
    /\ Quiet
    /\ \A n \in Node : ~fb[n]
    /\ UsedTotal = conf.budget

Mismatch(n, message) ==
    \/ message.source = n
    \/ message.version # conf.ident[n].version
    \/ message.env # conf.ident[n].env
    \/ message.userId # conf.ident[n].userId

\* C11: hello gates on the outbound side.  When the hello a client receives
\* carries the local name as source, or another version, env or userId than
\* the local one, the client closes the connection and sends nothing, so
\* onClientConnected does not run and no later frame is read.
ClientHelloGates ==
    [][\A n \in Run :
          (/\ s2c[n] # <<>>
           /\ Head(s2c[n]).type = "hello"
           /\ Mismatch(n, Head(s2c[n]))
           /\ ClientRecv(n))
              => /\ ws'[n].state = "closing"
                 /\ ~ws'[n].gotHello
                 /\ curId'[n] = curId[n]]_vars

\* C12: hello gates on the inbound side.  When the first frame of an inbound
\* connection is a hello that carries the server's own name as source, or
\* another version, env or userId than the server's, the server closes the
\* connection, sends no hello in reply and reads no later frame from it.
ServerHelloGates ==
    [][\A k \in Run :
          (/\ c2s[k] # <<>>
           /\ ~inb[k].saidHello
           /\ Head(c2s[k]).type = "hello"
           /\ Mismatch(ws[k].to, Head(c2s[k]))
           /\ ServerRecv(k))
              => /\ ~inb'[k].open
                 /\ ~inb'[k].saidHello
                 /\ s2c'[k] = s2c[k]]_vars

\* message passes the duplicate test of node n: its id is above the one
\* stored for its source, if any is stored
PassesDedup(n, message) ==
    LET k == MapGet(table[n], message.source)
    IN  k = 0 \/ ~IsDuplicate(heap[n][k], message)

\* the step appends message first to the frames queued for client k
WrittenDown(k, message) ==
    /\ Len(s2c'[k]) > Len(s2c[k])
    /\ s2c'[k][Len(s2c[k]) + 1] = message

\* the step appends message first to the frames node n's client has queued
WrittenUp(n, message) ==
    /\ Len(c2s'[n]) > Len(c2s[n])
    /\ c2s'[n][Len(c2s[n]) + 1] = message

\* the inbound connections of node n that are open, but the one of client k
OtherInbound(n, k) ==
    {j \in Run \ {k} : ws[j].state = "open" /\ ws[j].to = n /\ inb[j].open}

\* C13: gossip relay.  A non-hello frame read by onMessage whose source is
\* not the local node and whose id passes the duplicate test is written,
\* before anything its handler sends, to every other open connection and not
\* to the one it came from; a frame from the local node or a duplicate is
\* written nowhere.
GossipRelay ==
    [][/\ \A k \in Run :
            (/\ c2s[k] # <<>> /\ inb[k].saidHello
             /\ Head(c2s[k]).type # "hello"
             /\ ServerRecv(k))
                => LET n == ws[k].to
                       message == Head(c2s[k])
                   IN  IF message.source # n /\ PassesDedup(n, message)
                       THEN /\ \A j \in OtherInbound(n, k) : WrittenDown(j, message)
                            /\ ws[n].state = "open" => WrittenUp(n, message)
                            /\ \A i \in 1..Len(s2c'[k]) :
                                  i > Len(s2c[k]) => s2c'[k][i] # message
                       ELSE NothingSent
       /\ \A n \in Run :
            (/\ s2c[n] # <<>> /\ ws[n].gotHello
             /\ Head(s2c[n]).type # "hello"
             /\ ClientRecv(n))
                => LET message == Head(s2c[n])
                   IN  IF message.source # n /\ PassesDedup(n, message)
                       THEN /\ \A j \in OtherInbound(n, n) : WrittenDown(j, message)
                            /\ \A i \in 1..Len(c2s'[n]) :
                                  i > Len(c2s[n]) => c2s'[n][i] # message
                       ELSE NothingSent]_vars

\* the continuations of node n's outbound scanner: a pending setImmediate or
\* retry timer, and a client socket that is open or whose "close" is pending
Continuations(n) ==
    (IF sched[n] # "none" THEN 1 ELSE 0)
    + (IF ws[n].state \in {"open", "closing"} THEN 1 ELSE 0)

\* C14: at most one outbound connection.  While a client socket of a node is
\* open, or closed with its "close" callback still to run, no setImmediate
\* and no retry timer of the scanner is pending, so connectNextPeer never
\* runs, and never creates a second socket, while one is open.
OneOutboundConnection ==
    \A n \in Run : Continuations(n) <= 1

\* two nodes are connected in both directions, the second connection made
\* in a pass that the retry timer started
OneOutboundConnection_witness ==
    \E n \in Run : \E k \in Run \ {n} :
        /\ ws[n].state = "open" /\ ws[n].gotHello /\ ws[n].to = k
        /\ ws[k].state = "open" /\ ws[k].gotHello /\ ws[k].to = n
        /\ used["other"] >= 1
        /\ Continuations(n) = 1 /\ Continuations(k) = 1

\* the names under which the cache saved by node n lists address, after the step
CachedNamesAfter(n, address) ==
    {cache'[n][i].name : i \in {j \in 1..Len(cache'[n]) : cache'[n][j].address = address}}

\* C15: rename at hello.  When a client receives an acceptable hello whose
\* source differs from the name under which it holds the endpoint, the Peer
\* Table afterwards holds that peer object under the advertised name only,
\* the object's name is the advertised one, and the saved Peer Address Cache
\* lists the address under the advertised name and not under the old one.
RenameAtHello ==
    [][\A n \in Run :
          (/\ s2c[n] # <<>> /\ ws[n].state = "open" /\ ~ws[n].gotHello
           /\ Head(s2c[n]).type = "hello"
           /\ ~Mismatch(n, Head(s2c[n]))
           /\ Head(s2c[n]).source # heap[n][ws[n].peer].name
           /\ ClientRecv(n))
              => LET obj == ws[n].peer
                     old == heap[n][obj].name
                     new == Head(s2c[n]).source
                 IN  /\ MapGet(table'[n], new) = obj
                     /\ \A i \in 1..Len(table'[n]) :
                           table'[n][i].obj = obj => table'[n][i].key = new
                     /\ heap'[n][obj].name = new
                     /\ CachedNamesAfter(n, heap[n][obj].address) = {new}]_vars

\* some peer in node n's table is alive
HasLivePeer(n) ==
    \E i \in 1..Len(table[n]) : Alive(heap[n][table[n][i].obj], now)

\* C19: solo-controller fallback.  When the wait of P2P_GIVE_UP_TIME ends at a
\* node without a live peer, the node becomes controller and handler of each
\* of its available modules, and of no unavailable one; with a live peer it
\* changes neither handlers nor controller.  A node whose table holds only
\* itself is in that state once its pass is exhausted and its wait is over.
SoloFallback ==
    [][\A n \in Run :
          /\ (GiveUpTimer(n) /\ ~HasLivePeer(n))
                => /\ controller'[n] = MyselfObj
                   /\ \A m \in DOMAIN mods[n] :
                         IF mods[n][m].available
                         THEN mods'[n][m].handler = n
                         ELSE mods'[n][m].handler = mods[n][m].handler
          /\ (GiveUpTimer(n) /\ HasLivePeer(n))
                => mods'[n] = mods[n] /\ controller'[n] = controller[n]
          /\ (Len(table'[n]) = 1 /\ sched'[n] = "retry" /\ ~fb'[n])
                => /\ controller'[n] = MyselfObj
                   /\ \A m \in DOMAIN mods'[n] :
                         mods'[n][m].available => mods'[n][m].handler = n]_vars

\* a node has fallen back with a module that is not available to it
SoloFallback_witness ==
    \E n \in Run :
        /\ controller[n] = MyselfObj /\ ~fb[n] /\ sched[n] = "retry"
        /\ \E m \in DOMAIN mods[n] : mods[n][m].available /\ mods[n][m].handler = n
        /\ \E m \in DOMAIN mods[n] : ~mods[n][m].available /\ mods[n][m].handler = NoName

\* the frames of queue q that node n itself has sent, in the order sent
SentBy(n, q) == SelectSeq(q, LAMBDA message : message.source = n)

\* hello frames carry id 0; other frames carry ids from 1 on, below the
\* sender's counter, each larger than those sent before it
IdsInOrder(n, q) ==
    LET sent == SentBy(n, q)
    IN  \A i \in 1..Len(sent) :
           IF sent[i].type = "hello" THEN sent[i].id = 0
           ELSE /\ sent[i].id >= 1 /\ sent[i].id < curId[n]
                /\ \A j \in 1..(i - 1) :
                      sent[j].type # "hello" => sent[j].id < sent[i].id

\* C20: message ids.  Every frame in flight that its sender stamped carries
\* id 0 if it is a hello, in either direction of a connection, and otherwise
\* an id of at least 1 that is larger than the ids the sender used before.
MessageIds ==
    \A k \in Run :
        /\ IdsInOrder(k, c2s[k])
        /\ ws[k].state = "open" => IdsInOrder(ws[k].to, s2c[k])

\* the script of the configuration has been played to its end
ScriptDone == conf.script # <<>> /\ UsedTotal = Len(conf.script)

\* C18: rejoin with the same name.  Once a restarted node r, whose priority
\* number is larger than that of the controller k it connects to, has
\* completed its handshake and every frame has been read, k is still in
\* control and holds r's new priority, and r's controller is k.
RejoinSameName ==
    \A r \in Run : \A k \in Run \ {r} :
        (/\ ScriptDone /\ Quiet
         /\ conf.script[Len(conf.script)] = <<"start", r>>
         /\ ws[r].state = "open" /\ ws[r].to = k /\ ws[r].gotHello
         /\ InControl(k)
         /\ heap[r][MyselfObj].priority > heap[k][MyselfObj].priority)
            => /\ MapGet(table[k], r) # 0
               /\ heap[k][MapGet(table[k], r)].priority = heap[r][MyselfObj].priority
               /\ ControllerName(r) = k

\* the events played so far are starts and timer callbacks only: no node
\* has been killed and no heartbeat has been late
Undisturbed ==
    \A i \in 1..UsedTotal : conf.script[i][1] \in {"start", "status", "heartbeat"}

\* node n has connected to a node in control and every frame has been read
JoinedController(n) ==
    /\ conf.script # <<>> /\ Undisturbed /\ Quiet
    /\ ws[n].state = "open" /\ ws[n].gotHello
    /\ ws[n].to \in Run /\ InControl(ws[n].to)

\* C17: preferred-module request.  Once a node that prefers module m has
\* connected to the controller and its requestModule(m) has been answered,
\* the node handles m and the controller does not, for as long as no node is
\* killed and no heartbeat is late.
PreferredModule ==
    \A n \in Run : \A i \in 1..Len(conf.preferred[n]) :
        JoinedController(n)
            => LET m == conf.preferred[n][i]
               IN  /\ mods[n][m].handler = n
                   /\ mods[ws[n].to][m].handler # ws[n].to

\* the running node with the lowest priority number
Successor ==
    CHOOSE n \in Run : heap[n][MyselfObj].priority = BestPriority

\* C16: controller death.  At the end of the three-node run in which the
\* controller a is killed and the heartbeats of b and c keep arriving, b and
\* c hold a as knownDead, b is in control, c's controller is b, and every
\* module a was handling is handled by b or c, by a node it is available to.
ControllerDeath ==
    (ScriptDone /\ Quiet /\ "a" \notin Run /\ Cardinality(Run) = 2)
        => /\ \A n \in Run :
                 /\ MapGet(table[n], "a") # 0
                 /\ heap[n][MapGet(table[n], "a")].knownDead
                 /\ ControllerName(n) = Successor
           /\ \A m \in DOMAIN mods["a"] :
                 mods["a"][m].handler = "a"
                    => \E n \in Run :
                          /\ m \in DOMAIN mods[n]
                          /\ mods[n][m].available /\ mods[n][m].handler = n

\* C21: address-cache errors are not fatal.  A node whose Peer Address
\* Cache cannot be read at startup, or cannot be written later, is up all
\* the same: its process runs, its listener is open and its timers and
\* outbound scanning are started.
CacheErrorsNotFatal ==
    \A n \in ConfLine.run : conf.disk[n] # "ok" => n \in Run

\* the frames at the head of a channel
Heads ==
    {Head(c2s[k]) : k \in {j \in Node : c2s[j] # <<>>}}
        \cup {Head(s2c[k]) : k \in {j \in Node : s2c[j] # <<>>}}

\* node n can take this frame from a channel and hand it to onMessage
Pending(n, message) ==
    \/ \E k \in Run : /\ ws[k].to = n /\ inb[k].open /\ inb[k].saidHello
                       /\ c2s[k] # <<>> /\ Head(c2s[k]) = message
    \/ /\ n \in Run /\ ws[n].state = "open" /\ ws[n].gotHello
       /\ s2c[n] # <<>> /\ Head(s2c[n]) = message

\* the step in which node n hands this frame to onMessage
Takes(n, message) ==
    \/ \E k \in Run : /\ ws[k].to = n /\ inb[k].open /\ inb[k].saidHello
                       /\ c2s[k] # <<>> /\ Head(c2s[k]) = message
                       /\ ServerRecv(k)
    \/ /\ ws[n].gotHello /\ s2c[n] # <<>> /\ Head(s2c[n]) = message
       /\ ClientRecv(n)

\* onMessage at node n accepts this message: its source is a known peer
\* other than the node and its id is new
Accepted(n, message) ==
    /\ Tested(n, message)
    /\ heap[n][SourcePeer(n, message)].lastMessageId < message.id

\* the controlSwitch is one that its receiver ignores
Outranked(n, message) ==
    LET X == MapGet(table[n], message.controller)
    IN  X = 0 \/ heap[n][MyselfObj].priority < heap[n][X].priority

\* C22: controlSwitch handling.  On an accepted controlSwitch(X) the
\* controller is left unchanged if X is not in the Peer Table or the local
\* priority is strictly less than X's stored priority; in every other case
\* the controller becomes X.
ControlSwitchHandling ==
    [][\A n \in Run : \A message \in Heads :
          (/\ message.type = "controlSwitch"
           /\ Accepted(n, message)
           /\ Takes(n, message))
              => IF Outranked(n, message)
                 THEN controller'[n] = controller[n]
                 ELSE controller'[n] = MapGet(table[n], message.controller)]_vars

\* an accepted controlSwitch that its receiver ignores is about to be taken
\* by a node whose controller is set
ControlSwitchHandling_witness ==
    \E n \in Run : \E message \in Heads :
        /\ message.type = "controlSwitch"
        /\ Pending(n, message) /\ Accepted(n, message)
        /\ Outranked(n, message)
        /\ controller[n] # 0

\* the frames in flight after the step
FramesAfter ==
    UNION {{c2s'[k][i] : i \in 1..Len(c2s'[k])} : k \in Node}
        \cup UNION {{s2c'[k][i] : i \in 1..Len(s2c'[k])} : k \in Node}

\* the messages node n originates in the step: they carry its name and an
\* id its counter had not reached
Originates(n) ==
    {x \in FramesAfter : x.source = n /\ x.id >= curId[n] /\ x.type # "hello"}

\* node n can take this instanceInfo and onMessage will accept it
AcceptedInfo(n, message) ==
    /\ message.type = "instanceInfo"
    /\ message.source # n
    /\ SourcePeer(n, message) # 0
          => heap[n][SourcePeer(n, message)].lastMessageId < message.id

\* the peer object node n has, or will create, for the source of the message
PeerOf(n, message) ==
    IF SourcePeer(n, message) = 0 THEN Len(heap[n]) + 1
    ELSE SourcePeer(n, message)

\* the election test: no controller, or the sender's priority is strictly
\* lower than the controller's
Elects(n, message) ==
    \/ controller[n] = 0
    \/ /\ controller[n] # PeerOf(n, message)
       /\ message.priority < heap[n][controller[n]].priority

\* C23: election on instanceInfo.  On an accepted instanceInfo from P the
\* controller changes only if there is no controller or P's priority is
\* strictly lower than the controller's; then a node in control broadcasts
\* controlSwitch(P), and the node assumes control (broadcasting
\* controlSwitch of itself) if its own priority is strictly lower than P's
\* and takes P as controller otherwise.  In every other case the controller
\* is unchanged and no controlSwitch is sent.
ElectionOnInstanceInfo ==
    [][\A n \in Run : \A message \in Heads :
          (AcceptedInfo(n, message) /\ Takes(n, message))
              => IF Elects(n, message)
                 THEN /\ InControl(n) =>
                            \E x \in Originates(n) :
                                x.type = "controlSwitch"
                                    /\ x.controller = message.source
                      /\ IF heap[n][MyselfObj].priority < message.priority
                         THEN /\ controller'[n] = MyselfObj
                              /\ \E x \in Originates(n) :
                                    x.type = "controlSwitch" /\ x.controller = n
                         ELSE controller'[n] = PeerOf(n, message)
                 ELSE /\ controller'[n] = controller[n]
                      /\ \A x \in Originates(n) : x.type # "controlSwitch"]_vars

\* a node in control is about to accept the instanceInfo of a peer whose
\* priority is strictly lower than its own
ElectionOnInstanceInfo_witness ==
    \E n \in Run : \E message \in Heads :
        /\ AcceptedInfo(n, message) /\ Pending(n, message)
        /\ InControl(n)
        /\ message.priority < heap[n][MyselfObj].priority

\* node n has a connection a broadcast goes out on
Connected(n) ==
    \/ ws[n].state = "open"
    \/ \E k \in Node : inb[k].open /\ ws[k].to = n

\* node n runs checkStatus in this step
ChecksStatus(n) == CheckStatusTimer(n) \/ ServerClose(n)

\* C24: death detection.  A checkStatus tick marks every peer that is
\* neither alive nor knownDead as knownDead, resets its lastMessageId to 0
\* and broadcasts a lostPeer naming it; a node that takes a lostPeer marks
\* the peer dead and originates no lostPeer; and a node originates at most
\* one lostPeer naming a peer after the process of that peer has ended.
DeathDetection ==
    /\ [][\A n \in Run :
             /\ ChecksStatus(n) =>
                   \A i \in 1..Len(table[n]) :
                      LET obj == table[n][i].obj
                          peer == heap[n][obj]
                      IN  (peer.name # n /\ ~Alive(peer, now) /\ ~peer.knownDead)
                             => /\ heap'[n][obj].knownDead
                                /\ heap'[n][obj].lastMessageId = 0
                                /\ Connected(n) =>
                                      \E x \in Originates(n) :
                                         x.type = "lostPeer" /\ x.peer = peer.name
             /\ \A message \in Heads :
                   (/\ message.type = "lostPeer"
                    /\ Accepted(n, message) /\ Takes(n, message)
                    /\ MapHas(table[n], message.peer))
                      => /\ heap'[n][MapGet(table[n], message.peer)].knownDead
                         /\ \A x \in Originates(n) : x.type # "lostPeer"]_vars
    /\ [](\A n \in Run : \A p \in Node : p \notin conf.run => told[n][p] <= 1)

\* the peer named by this assignModule is alive in the sender's Peer Table
\* once the callback that sent it has run
AssigneeAlive(n, x) ==
    LET P == MapGet(table'[n], x.peer)
    IN  P # 0 /\ Alive(heap'[n][P], now')

\* C25: dead peers take part in no assignment.  No node broadcasts
\* assignModule(P, M) for a peer P that is knownDead or not alive in its
\* Peer Table, whichever callback the assignment comes from.
NoAssignmentToDeadPeers ==
    [][\A n \in Run : \A x \in Originates(n) :
          x.type = "assignModule" => AssigneeAlive(n, x)]_vars

\* C26: assignModule receipt.  On an accepted assignModule(X, M): if X is
\* the node and M a local module, the handler of M becomes the node; if X
\* is another node and the node is handling M, the handler of M becomes X;
\* otherwise no handler changes.  No other module's handler changes.
AssignModuleReceipt ==
    [][\A n \in Run : \A message \in Heads :
          (/\ message.type = "assignModule"
           /\ Accepted(n, message) /\ Takes(n, message))
              => LET M == message.module
                     X == message.peer
                 IN  IF M \notin DOMAIN mods[n] THEN mods'[n] = mods[n]
                     ELSE IF X = n
                     THEN mods'[n] = [mods[n] EXCEPT ![M].handler = n]
                     ELSE IF mods[n][M].handler = n
                     THEN mods'[n] = [mods[n] EXCEPT ![M].handler = X]
                     ELSE mods'[n] = mods[n]]_vars

\* a node that is not handling a local module is about to accept an
\* assignModule that gives the module to another node
AssignModuleReceipt_witness ==
    \E n \in Run : \E message \in Heads :
        /\ message.type = "assignModule"
        /\ Accepted(n, message) /\ Pending(n, message)
        /\ message.module \in DOMAIN mods[n]
        /\ message.peer # n
        /\ mods[n][message.module].handler # n
        /\ mods[n][message.module].handler # message.peer

\* node n accepts this requestModule in the step
TakesRequest(n, message) ==
    /\ message.type = "requestModule"
    /\ Accepted(n, message) /\ Takes(n, message)

\* the controller's answer to a requestModule: its own handler for the
\* module is cleared if it was handling it, and assignModule(requester,
\* module) is broadcast
Grants(n, message) ==
    /\ \A m \in DOMAIN mods[n] :
          mods'[n][m].handler =
              IF m = message.module /\ mods[n][m].handler = n THEN NoName
              ELSE mods[n][m].handler
    /\ \E x \in Originates(n) :
          /\ x.type = "assignModule"
          /\ x.peer = message.source /\ x.module = message.module

\* a node originates an assignModule only while it is its own controller,
\* and a requestModule taken by a node that is not controller changes no
\* handler and makes the node send nothing of its own
OnlyControllerActs ==
    \A n \in Run :
        /\ (\E x \in Originates(n) : x.type = "assignModule")
              => controller'[n] = MyselfObj
        /\ \A message \in Heads :
              (TakesRequest(n, message) /\ ~InControl(n))
                 => mods'[n] = mods[n] /\ Originates(n) = {}

\* C27 as stated: only the controller assigns, and on requestModule(M) a
\* controller clears its own handler for M if it was handling M and
\* broadcasts assignModule(requester, M), whatever M is.
OnlyControllerAssigns ==
    [][/\ OnlyControllerActs
       /\ \A n \in Run : \A message \in Heads :
             (TakesRequest(n, message) /\ InControl(n))
                => Grants(n, message)]_vars

\* C27, amended: only the controller assigns, and on requestModule(M) a
\* controller that has a module M clears its own handler for M if it was
\* handling M and broadcasts assignModule(requester, M); a controller that
\* has no module M changes no handler and sends nothing of its own.
OnlyControllerAssignsLocal ==
    [][/\ OnlyControllerActs
       /\ \A n \in Run : \A message \in Heads :
             (TakesRequest(n, message) /\ InControl(n))
                => IF message.module \in DOMAIN mods[n]
                   THEN Grants(n, message)
                   ELSE mods'[n] = mods[n] /\ Originates(n) = {}]_vars

\* a controller that is handling a module is about to accept a
\* requestModule for it
OnlyControllerAssignsLocal_witness ==
    \E n \in Run : \E message \in Heads :
        /\ message.type = "requestModule"
        /\ Accepted(n, message) /\ Pending(n, message)
        /\ InControl(n)
        /\ message.module \in DOMAIN mods[n]
        /\ mods[n][message.module].handler = n

\* C28: moduleInfo is stored.  After a node has processed an accepted
\* moduleInfo of peer P, the module list it holds for P is the list the
\* message carried, whatever the list's descriptors say and in whatever
\* order they come.
ModuleInfoStored ==
    [][\A n \in Run : \A message \in Heads :
          (/\ message.type = "moduleInfo"
           /\ Accepted(n, message) /\ Takes(n, message))
              => LET P == SourcePeer(n, message)
                 IN  /\ heap'[n][P].hasModules
                     /\ heap'[n][P].modules = message.modules]_vars

\* the running nodes that handle module m themselves
SelfHandlers(m) ==
    {n \in Run : m \in DOMAIN mods[n] /\ mods[n][m].handler = n}

\* C29: handling conflict resolution.  Once two nodes that both handled a
\* module have sent each other their moduleInfo and the messages have
\* drained, at most one of them handles the module, wherever the module's
\* descriptor sits in the moduleInfo lists.
ConflictResolution ==
    (ScriptDone /\ Quiet)
        => \A m \in ModuleNames : Cardinality(SelfHandlers(m)) <= 1

\* node n marks the peer object obj dead in the step
Marks(n, obj) ==
    /\ obj # MyselfObj /\ obj \in DOMAIN heap[n]
    /\ ~heap[n][obj].knownDead /\ heap'[n][obj].knownDead

\* the modules the last moduleInfo of p accepted by n showed handled by p
AdvertisedHandled(n, p) ==
    {advertised[n][p][j].name :
        j \in {i \in 1..Len(advertised[n][p]) : advertised[n][p][i].handling}}

\* the first peer of n's Peer Table that is alive after the step and whose
\* last accepted moduleInfo showed module M available, NoName when none
FirstAdvertiser(n, M) ==
    LET Capable(i) ==
            LET peer == heap'[n][table'[n][i].obj]
            IN  /\ Alive(peer, now')
                /\ peer.name \in Node
                /\ \E j \in 1..Len(advertised[n][peer.name]) :
                      /\ advertised[n][peer.name][j].name = M
                      /\ advertised[n][peer.name][j].available
        I == {i \in 1..Len(table'[n]) : Capable(i)}
    IN  IF I = {} THEN NoName
        ELSE heap'[n][table'[n][CHOOSE i \in I : \A j \in I : i <= j].obj].name

\* C30: dead-peer fallout.  When a node in control marks a peer P dead,
\* every local module that P's last advertised list showed handled by P is
\* assigned in the same step: its handler is the node if the module is
\* available to the node; otherwise assignModule is broadcast to the first
\* live peer that advertised it as available; otherwise it has no handler.
DeadPeerFallout ==
    [][\A n \in Run : \A i \in 1..Len(table[n]) :
          LET obj == table[n][i].obj
              P == heap[n][obj].name
          IN  (InControl(n) /\ P \in Node /\ Marks(n, obj))
                 => \A M \in AdvertisedHandled(n, P) \cap DOMAIN mods[n] :
                       IF mods[n][M].available
                       THEN mods'[n][M].handler = n
                       ELSE IF FirstAdvertiser(n, M) # NoName
                       THEN \E x \in Originates(n) :
                               /\ x.type = "assignModule" /\ x.module = M
                               /\ x.peer = FirstAdvertiser(n, M)
                       ELSE mods'[n][M].handler = NoName]_vars

\* the server of client k takes a first frame that is not a hello
ServerFirstNotHello(k) ==
    /\ k \in Run /\ inb[k].open /\ ~inb[k].saidHello
    /\ c2s[k] # <<>> /\ Head(c2s[k]).type # "hello"
    /\ ServerRecv(k)

\* the client of node n takes a frame that is not a hello before any hello
\* has passed on its connection
ClientFirstNotHello(n) ==
    /\ n \in Run /\ ws[n].state = "open" /\ ~ws[n].gotHello
    /\ s2c[n] # <<>> /\ Head(s2c[n]).type # "hello"
    /\ ClientRecv(n)

\* C31: the first frame must be a hello.  A first frame that is not a hello
\* closes an inbound connection and is not processed; the client closes an
\* outbound connection when the first frame it receives is not a hello; and
\* no frame is handed to onMessage before a hello was accepted on its
\* connection.
FirstFrameHello ==
    [][/\ \A k \in Node :
             ServerFirstNotHello(k)
                => ~inb'[k].open /\ delivered'[ws[k].to] = delivered[ws[k].to]
       /\ \A n \in Node :
             ClientFirstNotHello(n)
                => ws'[n].state # "open" /\ delivered'[n] = delivered[n]
       /\ \A n \in Node :
             delivered'[n] # delivered[n] /\ n \in Run
                => \/ ws[n].gotHello /\ ClientRecv(n)
                   \/ \E k \in Node : /\ ws[k].to = n /\ inb[k].saidHello
                                       /\ ServerRecv(k)]_vars

\* the client of node n takes a hello that renames the peer of its
\* connection (renamePeer for a placeholder, processHello for a hello that
\* passes) to a name under which the Peer Table holds another object
RenameCollides(n) ==
    /\ n \in Run /\ ws[n].state = "open" /\ ~ws[n].gotHello
    /\ s2c[n] # <<>> /\ Head(s2c[n]).type = "hello"
    /\ LET message == Head(s2c[n])
           peer == heap[n][ws[n].peer]
       IN  /\ message.source # peer.name
           /\ IsUnknownName(peer.name) \/ ~Mismatch(n, message)
           /\ MapHas(table[n], message.source)
           /\ MapGet(table[n], message.source) # ws[n].peer

\* C32: rename collision.  When a hello would rename a Peer Table entry to
\* a name that already belongs to another entry, the entry that was there
\* is unchanged and is still the object the table maps the name to, and the
\* new connection is closed.
RenameCollision ==
    [][\A n \in Node :
          (RenameCollides(n) /\ ClientRecv(n))
             => LET name == Head(s2c[n]).source
                    old == MapGet(table[n], name)
                IN  /\ MapGet(table'[n], name) = old
                    /\ heap'[n][old] = heap[n][old]
                    /\ ws'[n].state # "open"]_vars

\* the _Configurable objects the ConfigStorage of node n holds
Registered(n) ==
    ({e.obj : e \in storage[n].users \cup storage[n].guilds}
        \cup {storage[n].global}) \ {0}

\* C33: cache sink routing.  expireCache(scope, id) flushes the cache of
\* the bucket its arguments name, be it a user bucket, a guild bucket made
\* by guild(id) or the global bucket, and leaves every other bucket's cache
\* as it was.
CacheSinkRouting ==
    [][\A n \in Node : \A b \in Buckets :
          ExpireCache(n, b[1], b[2])
             => \A i \in Registered(n) :
                   LET bucket == storage[n].objs[i]
                   IN  IF <<bucket.scope, bucket.id>> = b
                       THEN storage'[n].objs[i].cache = NoValue
                       ELSE storage'[n].objs[i].cache = bucket.cache]_vars

\* a write of node w to a bucket of this scope has not reached the database
WritePending(w, scope) ==
    \E i \in 1..Len(ops[w]) :
        ops[w][i].kind # "getList" /\ ops[w][i].scope = scope

\* C39: invalidate after write.  When a node processes the
\* expireConfigCache that a set or setMany of another node has sent, the
\* writer's update of the database has been made, so that a read which
\* refetches after the flush finds the new value.
InvalidateAfterWrite ==
    [][\A n \in Run : \A message \in Heads :
          (/\ message.type = "expireConfigCache"
           /\ Accepted(n, message)
           /\ Takes(n, message))
              => ~WritePending(message.source, message.scope)]_vars

\* connectNextPeer runs at node n in this step
Scans(n) == ConnectNext(n) \/ RetryTimer(n) \/ ClientClose(n)

\* the iterator of node n's scanner is exhausted
Exhausted(n) == iter[n] > Len(table[n])

\* C34: outbound scanning never stalls.  However an outbound attempt ends,
\* the scanner goes on: a running node always has a connection open, or a
\* close callback, a setImmediate or a retry timer of the scanner pending;
\* and a connectNextPeer that finds the iterator exhausted schedules a new
\* pass after PEER_RETRY_TIME and runs the no-peers fallback check, which
\* sleeps unless the node handles every module.
ScanNeverStalls ==
    /\ [](\A n \in Run : Continuations(n) >= 1)
    /\ [][\A n \in Run :
             (Exhausted(n) /\ Scans(n))
                => /\ sched'[n] = "retry" /\ iter'[n] = 0
                   /\ fb'[n] = (fb[n] \/ \E m \in DOMAIN mods[n] :
                                              mods[n][m].handler # n)]_vars

\* node n has accepted a heartbeat or an instanceInfo of the peer it holds
\* under this name
HeardFrom(n, name) ==
    \E i \in 1..Len(table[n]) :
        /\ heap[n][table[n][i].obj].name = name
        /\ heap[n][table[n][i].obj].lastHeartbeat # 0

\* C35: no false death announcement.  A node originates a lostPeer only
\* for a peer other than itself of which it has accepted a heartbeat or an
\* instanceInfo before; an entry that was loaded from the cache or from
\* P2P_PEERS and never heard from causes none.
NoFalseDeath ==
    [][\A n \in Run : \A x \in Originates(n) :
          x.type = "lostPeer" => x.peer # n /\ HeardFrom(n, x.peer)]_vars

\* C35 as the code has it: a node originates a lostPeer only for an entry
\* of its Peer Table other than its own that was neither alive nor
\* knownDead, heard from or not, and that it marks knownDead in the step.
LostPeerOrigin ==
    [][\A n \in Run : \A x \in Originates(n) :
          x.type = "lostPeer"
             => /\ x.peer # n
                /\ \E i \in 1..Len(table[n]) :
                      LET obj == table[n][i].obj
                      IN  /\ heap[n][obj].name = x.peer
                          /\ ~heap[n][obj].knownDead
                          /\ ~Alive(heap[n][obj], now)
                          /\ heap'[n][obj].knownDead]_vars

\* a lostPeer is in flight whose sender never heard from the peer it names
LostPeerOrigin_witness ==
    \E k \in Node : \E i \in 1..Len(s2c[k]) :
        LET x == s2c[k][i]
        IN  /\ x.type = "lostPeer" /\ x.source \in Run
            /\ \E j \in 1..Len(table[x.source]) :
                  LET peer == heap[x.source][table[x.source][j].obj]
                  IN  /\ peer.name = x.peer
                      /\ peer.lastHeartbeat = 0 /\ peer.knownDead

\* processHello at node n rejects this hello: it carries the node's own
\* name, another version or another userId
Rejects(n, message) ==
    \/ message.source = n
    \/ message.version # conf.ident[n].version
    \/ message.userId # conf.ident[n].userId

\* C36: a rejected hello changes nothing.  When processHello rejects the
\* hello of an outbound connection, the Peer Table, with its keys, the
\* objects they map to and the names of those objects, and the saved Peer
\* Address Cache are as they were before the hello arrived.
RejectedHelloChangesNothing ==
    [][\A n \in Run :
          (/\ ws[n].state = "open" /\ ~ws[n].gotHello
           /\ s2c[n] # <<>> /\ Head(s2c[n]).type = "hello"
           /\ Rejects(n, Head(s2c[n]))
           /\ ClientRecv(n))
              => /\ table'[n] = table[n]
                 /\ \A i \in 1..Len(table[n]) :
                       heap'[n][table[n][i].obj].name = heap[n][table[n][i].obj].name
                 /\ cache'[n] = cache[n]]_vars

\* C37: handling implies available.  No running node is the handler of a
\* local module that is not available to it.
HandlingImpliesAvailable ==
    \A n \in Run : \A m \in DOMAIN mods[n] :
        mods[n][m].handler = n => mods[n][m].available

\* C38: the Peer Table of a node never holds two different entries with the
\* same non-empty address, whatever the order of loading the cache and
\* P2P_PEERS, creating a peer from a first instanceInfo and renaming at hello
OneEntryPerEndpoint ==
    \A n \in Run : \A i, j \in 1..Len(table[n]) :
        (/\ i # j
         /\ heap[n][table[n][i].obj].address # NoAddr)
        => heap[n][table[n][i].obj].address # heap[n][table[n][j].obj].address

\* C40: startup ordering.  On a first start with no Peer Address Cache
\* file, the read of begin() completes only when makeSureDataFileExists has
\* created and written the file, and begin() then reaches server.listen:
\* the listener, the timers and the outbound scan are started.
StartupOrdering ==
    [][\A n \in conf.run :
          (conf.disk[n] \in BootStates /\ conf'.disk[n] \notin BootStates)
          => /\ conf.disk[n] = "written"
             /\ n \in Run' /\ sched'[n] = "next" /\ ~rejected'[n]]_vars

====
